---- MODULE Spec2Model ----
(***************************************************************************)
(* Model of the calculator agents: the Stepwise and the Reducing agent     *)
(* loops (src/src/agents), the tool-call argument interpretation they      *)
(* share, the textual expression reducer and validator                     *)
(* (src/src/agents/utility.py) and the calculator                          *)
(* (src/src/tools/calculator.py).                                          *)
(*                                                                         *)
(* A Python str is a sequence of one-character strings.  A Python number   *)
(* is a record [t, n, d]: t is "int" or "float" and n/d the value in       *)
(* lowest terms.  Floats are exact rationals; the inputs are kept to       *)
(* values whose float arithmetic is exact.                                 *)
(***************************************************************************)
EXTENDS Integers, Sequences, FiniteSets, TLC

\* ------------------------------------------------------------------------
\* Bounds of the model
\* ------------------------------------------------------------------------
\* most tool calls in one model response
MaxCallsPerTurn == 2
\* largest configured max_llm_calls
MaxLlmCalls == 2
\* most tool calls in one response of the lockstep (two agents) runs
MaxPairCallsPerTurn == 1
\* largest configured max_llm_calls of the lockstep runs
MaxPairLlmCalls == 4
\* longest expression handed to validate_expression on its own
MaxValidateLen == 3
\* most tool calls in a response handed to _process_tool_calls on its own
MaxInterpCalls == 2
\* largest magnitude of an operand handed to calculate
MaxOperand == 3

\* ------------------------------------------------------------------------
\* Characters
\* ------------------------------------------------------------------------
AsciiDigits == {"0", "1", "2", "3", "4", "5", "6", "7", "8", "9"}

\* U+0663 ARABIC-INDIC DIGIT THREE, one character: a decimal digit for
\* the str pattern \d, for \w and for float(), not for the Python grammar.
ArabicThree == "U0663"

\* \d of a str pattern: any Unicode decimal digit
IsDigit(c) == c \in AsciiDigits \cup {ArabicThree}

\* \s of a str pattern and the characters str.strip() removes (the
\* strings of the model hold blanks and tabs, no line breaks)
IsSpace(c) == c \in {" ", "\t"}

\* \w of a str pattern: alphanumerics and the underscore
IsWord(c) == IsDigit(c) \/ c \in {"e", "x", "_"}

DigitChar(k) == <<"0", "1", "2", "3", "4", "5", "6", "7", "8", "9">>[k + 1]

DigitVal(c) ==
  IF c = ArabicThree THEN 3
  ELSE CHOOSE k \in 0..9 : DigitChar(k) = c

\* ------------------------------------------------------------------------
\* Strings
\* ------------------------------------------------------------------------
RECURSIVE LStrip(_)
LStrip(s) ==
  IF s = <<>> THEN s
  ELSE IF IsSpace(Head(s)) THEN LStrip(Tail(s)) ELSE s

RECURSIVE RStrip(_)
RStrip(s) ==
  IF s = <<>> THEN s
  ELSE IF IsSpace(s[Len(s)]) THEN RStrip(SubSeq(s, 1, Len(s) - 1)) ELSE s

\* str.strip()
Strip(s) == RStrip(LStrip(s))

\* str.count(c) for a one-character c
Count(s, c) == Cardinality({k \in 1..Len(s) : s[k] = c})

\* c in s
Contains(s, c) == \E k \in 1..Len(s) : s[k] = c

\* does t occur in s at position k
OccursAt(s, t, k) ==
  /\ k + Len(t) - 1 <= Len(s)
  /\ \A j \in 1..Len(t) : s[k + j - 1] = t[j]

\* str.replace(old, new): every non-overlapping occurrence, left to right
RECURSIVE ReplaceFrom(_, _, _, _)
ReplaceFrom(s, old, new, k) ==
  IF k > Len(s) THEN <<>>
  ELSE IF OccursAt(s, old, k)
       THEN new \o ReplaceFrom(s, old, new, k + Len(old))
       ELSE <<s[k]>> \o ReplaceFrom(s, old, new, k + 1)

Replace(s, old, new) == ReplaceFrom(s, old, new, 1)

\* '\n'.join(ss) and friends
RECURSIVE Join(_, _)
Join(sep, ss) ==
  IF ss = <<>> THEN <<>>
  ELSE IF Len(ss) = 1 THEN ss[1]
  ELSE ss[1] \o sep \o Join(sep, Tail(ss))

\* ------------------------------------------------------------------------
\* Python values
\* ------------------------------------------------------------------------
Abs(x) == IF x < 0 THEN -x ELSE x

RECURSIVE GCD(_, _)
GCD(x, y) == IF y = 0 THEN x ELSE GCD(y, x % y)

RECURSIVE Pow10(_)
Pow10(k) == IF k <= 0 THEN 1 ELSE 10 * Pow10(k - 1)

\* the number n/d of type t ("int" or "float"), in lowest terms, d > 0
Num(t, n, d) ==
  LET g == GCD(Abs(n), Abs(d))
      sg == IF d < 0 THEN -1 ELSE 1
  IN  [t |-> t, n |-> sg * (n \div g), d |-> sg * (d \div g)]

PyInt(n) == [t |-> "int", n |-> n, d |-> 1]
PyFloat(n, d) == Num("float", n, d)
PyStr(s) == [t |-> "str", s |-> s]
PyBool(v) == [t |-> "bool", v |-> v]
None == [t |-> "none"]
EmptyTuple == [t |-> "tuple"]
\* a raised exception, named after the error of the design
Raised(e) == [t |-> "raised", e |-> e]

IsNumber(v) == v.t \in {"int", "float"}
IsRaised(v) == v.t = "raised"

\* Python ==  on two values (1 == 1.0 is true)
PyEq(x, y) ==
  IF IsNumber(x) /\ IsNumber(y) THEN x.n = y.n /\ x.d = y.d
  ELSE x = y

\* truth value of a Python value (if x:)
Truthy(v) ==
  CASE v.t = "bool" -> v.v
    [] v.t \in {"int", "float"} -> v.n # 0
    [] v.t = "str" -> v.s # <<>>
    [] OTHER -> FALSE

\* type of a + b, a - b, a * b: int only when both are int
Wider(a, b) == IF a.t = "int" /\ b.t = "int" THEN "int" ELSE "float"

PyAdd(a, b) == Num(Wider(a, b), a.n * b.d + b.n * a.d, a.d * b.d)
PySub(a, b) == Num(Wider(a, b), a.n * b.d - b.n * a.d, a.d * b.d)
PyMul(a, b) == Num(Wider(a, b), a.n * b.n, a.d * b.d)
\* a // b in the place of a / b
PyTrueDiv_floor(a, b) ==
  [t |-> Wider(a, b), n |-> (a.n * b.d) \div (a.d * b.n), d |-> 1]

\* a / b for b # 0: always a float
PyTrueDiv(a, b) == Num("float", a.n * b.d, a.d * b.n)
PyNeg(a) == [a EXCEPT !.n = -a.n]

\* the floor of n/d, d > 0 (\div rounds towards minus infinity)
Floor(n, d) == n \div d

\* ------------------------------------------------------------------------
\* Calculator (src/src/tools/calculator.py)
\* ------------------------------------------------------------------------
Ops == {<<"+">>, <<"-">>, <<"*">>, <<"/">>}

\* calculate without op.strip()
calculate_untrimmed(a, b, op) ==
  IF op.t # "str" THEN Raised("AttributeError")
  ELSE
    CASE op.s = <<"+">> -> PyAdd(a, b)
      [] op.s = <<"-">> -> PySub(a, b)
      [] op.s = <<"*">> -> PyMul(a, b)
      [] op.s = <<"/">> -> IF b.n = 0 THEN Raised("DivisionByZero")
                           ELSE PyTrueDiv(a, b)
      [] OTHER -> Raised("UnsupportedOperation")

\* calculate(a, b, op) for numbers a and b; op is any Python value
\* (op.strip() of a value that is not a str raises AttributeError)
calculate(a, b, op) ==
  IF op.t # "str" THEN Raised("AttributeError")
  ELSE LET o == Strip(op.s) IN
    CASE o = <<"+">> -> PyAdd(a, b)
      [] o = <<"-">> -> PySub(a, b)
      [] o = <<"*">> -> PyMul(a, b)
      [] o = <<"/">> -> IF b.n = 0 THEN Raised("DivisionByZero")
                        ELSE PyTrueDiv(a, b)
      [] OTHER -> Raised("UnsupportedOperation")

\* ------------------------------------------------------------------------
\* Rendering numbers
\* ------------------------------------------------------------------------
RECURSIVE NatStr(_)
NatStr(n) == IF n < 10 THEN <<DigitChar(n)>>
             ELSE NatStr(n \div 10) \o <<DigitChar(n % 10)>>

\* n written with exactly w digits (leading zeros)
RECURSIVE PadStr(_, _)
PadStr(n, w) == IF w <= 0 THEN <<>>
                ELSE PadStr(n \div 10, w - 1) \o <<DigitChar(n % 10)>>

RECURSIVE StripZeros(_)
StripZeros(s) ==
  IF s # <<>> /\ s[Len(s)] = "0" THEN StripZeros(SubSeq(s, 1, Len(s) - 1))
  ELSE s

\* the decimal exponent of n/d > 0: 10^e <= n/d < 10^(e+1)
AtLeastPow10(n, d, e) == n * Pow10(-e) >= d * Pow10(e)

RECURSIVE Exp10(_, _, _)
Exp10(n, d, e) ==
  IF ~AtLeastPow10(n, d, e) THEN Exp10(n, d, e - 1)
  ELSE IF AtLeastPow10(n, d, e + 1) THEN Exp10(n, d, e + 1)
  ELSE e

\* n/d rounded to the nearest integer, ties to even
RoundHalfEven(n, d) ==
  LET q == n \div d
      r == n % d
  IN  IF 2 * r < d THEN q
      ELSE IF 2 * r > d THEN q + 1
      ELSE IF q % 2 = 0 THEN q ELSE q + 1

\* the %g presentation of x: six significant digits, trailing zeros
\* removed, exponent form when the exponent is < -4 or >= 6
FormatG(x) ==
  IF x.n = 0 THEN <<"0">>
  ELSE
    LET an == Abs(x.n)
        e0 == Exp10(an, x.d, 0)
        m0 == RoundHalfEven(an * Pow10(5 - e0), x.d * Pow10(e0 - 5))
        e  == IF m0 = 1000000 THEN e0 + 1 ELSE e0
        m  == IF m0 = 1000000 THEN 100000 ELSE m0
        sign == IF x.n < 0 THEN <<"-">> ELSE <<>>
        frac(ds) == IF StripZeros(ds) = <<>> THEN <<>>
                    ELSE <<".">> \o StripZeros(ds)
    IN  IF e < -4 \/ e >= 6
        THEN sign \o <<DigitChar(m \div 100000)>>
                  \o frac(PadStr(m % 100000, 5))
                  \o <<"e", IF e < 0 THEN "-" ELSE "+">>
                  \o (IF Abs(e) < 10 THEN <<"0">> ELSE <<>>) \o NatStr(Abs(e))
        ELSE IF e >= 0
        THEN sign \o NatStr(m \div Pow10(5 - e))
                  \o frac(PadStr(m % Pow10(5 - e), 5 - e))
        ELSE sign \o <<"0">> \o frac(PadStr(m, 5 - e))

\* float_to_str(f) = f'{f: g}'.strip(): the space flag only adds a
\* leading blank to a non-negative number, and strip() removes it
float_to_str(f) == FormatG(f)

\* number of decimals of the terminating decimal expansion of n/d
RECURSIVE Decimals(_, _, _)
Decimals(n, d, k) ==
  IF (n * Pow10(k)) % d = 0 \/ k >= 17 THEN k ELSE Decimals(n, d, k + 1)

\* str(v) as an f-string field renders it: an int in decimal, a float by
\* its repr (exact for a float with a short terminating expansion), a
\* str as itself, a bool as True/False
Str(v) ==
  CASE v.t = "int" ->
         (IF v.n < 0 THEN <<"-">> ELSE <<>>) \o NatStr(Abs(v.n))
    [] v.t = "float" ->
         LET k == Decimals(Abs(v.n), v.d, 0)
             w == (Abs(v.n) * Pow10(k)) \div v.d
         IN  (IF v.n < 0 THEN <<"-">> ELSE <<>>)
               \o NatStr(w \div Pow10(k)) \o <<".">>
               \o (IF k = 0 THEN <<"0">> ELSE PadStr(w % Pow10(k), k))
    [] v.t = "str" -> v.s
    [] v.t = "bool" -> IF v.v THEN <<"T", "r", "u", "e">>
                       ELSE <<"F", "a", "l", "s", "e">>
    [] OTHER -> <<"N", "o", "n", "e">>

\* ------------------------------------------------------------------------
\* Regular expressions (the part of Python's re the utilities use)
\* ------------------------------------------------------------------------
BS == "\\"

\* re.escape(s): a backslash before every special character
ReSpecial == {"(", ")", "[", "]", "{", "}", "?", "*", "+", "-", "|", "^",
              "$", BS, ".", "&", "~", "#", " ", "\t"}

RECURSIVE ReEscape(_)
ReEscape(s) ==
  IF s = <<>> THEN <<>>
  ELSE (IF Head(s) \in ReSpecial THEN <<BS, Head(s)>> ELSE <<Head(s)>>)
         \o ReEscape(Tail(s))

Quantifiers == {"*", "+", "?"}

\* the pattern text p compiled from position i into a sequence of items:
\* \b, or a one-character matcher (a literal, "." , \s, \d) with the
\* quantifier that follows it
RECURSIVE ReCompile(_, _)
ReCompile(p, i) ==
  IF i > Len(p) THEN <<>>
  ELSE
    LET esc  == p[i] = BS /\ i < Len(p)
        w    == IF esc THEN 2 ELSE 1
        x    == IF esc THEN p[i + 1] ELSE p[i]
        kind == IF esc /\ x = "b" THEN "wb"
                ELSE IF esc /\ x = "s" THEN "space"
                ELSE IF esc /\ x = "d" THEN "digit"
                ELSE IF ~esc /\ x = "." THEN "any"
                ELSE "lit"
        hasq == kind # "wb" /\ i + w <= Len(p) /\ p[i + w] \in Quantifiers
        q    == IF hasq THEN p[i + w] ELSE "1"
    IN  <<[k |-> kind, c |-> x, q |-> q]>>
          \o ReCompile(p, i + w + (IF hasq THEN 1 ELSE 0))

ItemMatches(it, c) ==
  CASE it.k = "lit" -> c = it.c
    [] it.k = "any" -> TRUE
    [] it.k = "space" -> IsSpace(c)
    [] it.k = "digit" -> IsDigit(c)
    [] OTHER -> FALSE

\* \b at pos: exactly one of the characters before and at pos is a word
\* character (outside the string counts as a non-word character)
WordBoundary(s, pos) ==
  LET before == pos > 1 /\ pos - 1 <= Len(s) /\ IsWord(s[pos - 1])
      after  == pos >= 1 /\ pos <= Len(s) /\ IsWord(s[pos])
  IN  before # after

\* how many characters from pos on the item can take, at most cap
RECURSIVE RunLen(_, _, _, _)
RunLen(it, s, pos, cap) ==
  IF cap = 0 \/ pos > Len(s) \/ ~ItemMatches(it, s[pos]) THEN 0
  ELSE 1 + RunLen(it, s, pos + 1, cap - 1)

\* the backtracking matcher: the position after the match of items k..
\* started at pos, or -1; a quantified item takes as much as it can first
RECURSIVE ReMatchAt(_, _, _, _)
RECURSIVE ReTryCount(_, _, _, _, _, _)
ReMatchAt(its, k, s, pos) ==
  IF k > Len(its) THEN pos
  ELSE IF its[k].k = "wb"
  THEN IF WordBoundary(s, pos) THEN ReMatchAt(its, k + 1, s, pos) ELSE -1
  ELSE
    LET q   == its[k].q
        cap == IF q \in {"1", "?"} THEN 1 ELSE Len(s)
        lo  == IF q \in {"1", "+"} THEN 1 ELSE 0
    IN  ReTryCount(its, k, s, pos, RunLen(its[k], s, pos, cap), lo)

ReTryCount(its, k, s, pos, c, lo) ==
  IF c < lo THEN -1
  ELSE LET r == ReMatchAt(its, k + 1, s, pos + c)
       IN  IF r # -1 THEN r ELSE ReTryCount(its, k, s, pos, c - 1, lo)

\* re.search: the leftmost match as <<start, end>> (end exclusive),
\* <<0, 0>> when there is none
RECURSIVE ReSearchFrom(_, _, _)
ReSearchFrom(its, s, pos) ==
  IF pos > Len(s) + 1 THEN <<0, 0>>
  ELSE LET r == ReMatchAt(its, 1, s, pos)
       IN  IF r # -1 THEN <<pos, r>> ELSE ReSearchFrom(its, s, pos + 1)

ReSearch(p, s) == ReSearchFrom(ReCompile(p, 1), s, 1)

\* re.sub(p, repl, s, count=1) for a repl without escapes
ReSubFirst(p, repl, s) ==
  LET m == ReSearch(p, s)
  IN  IF m[1] = 0 THEN s
      ELSE SubSeq(s, 1, m[1] - 1) \o repl \o SubSeq(s, m[2], Len(s))

\* ------------------------------------------------------------------------
\* Utilities (src/src/agents/utility.py)
\* ------------------------------------------------------------------------
\* the character class [\d\s\+\-\*\/\(\)\.] of the validation pattern
ValidChar(c) ==
  IsDigit(c) \/ IsSpace(c) \/ c \in {"+", "-", "*", "/", "(", ")", "."}

\* validate_expression: TRUE, or the ValueError it raises
validate_expression(expression, max_expression_length) ==
  IF Len(expression) > max_expression_length
  THEN Raised("ExpressionTooLong")
  ELSE IF ~(Len(expression) >= 1
            /\ \A k \in 1..Len(expression) : ValidChar(expression[k]))
  THEN Raised("InvalidCharacters")
  ELSE PyBool(TRUE)

create_number_pattern(num) ==
  IF num.t = "int" THEN <<BS, "b">> \o Str(num) \o <<BS, "b">>
  ELSE <<BS, "b">> \o Replace(float_to_str(num), <<".">>, <<BS, ".", "?">>)
         \o <<BS, "b">>

WS == <<BS, "s", "*">>

\* a reduce_expression that, finding nothing to replace, returns the result
\* in place of the expression
reduce_expression_result_only(expression, a, b, op, result) ==
  LET a_str == float_to_str(a)
      b_str == float_to_str(b)
      result_str == float_to_str(result)
      parentheses_pattern ==
        <<BS, "(">> \o WS \o create_number_pattern(a) \o WS \o ReEscape(op)
          \o WS \o create_number_pattern(b) \o WS \o <<BS, ")">>
      pattern ==
        create_number_pattern(a) \o WS \o ReEscape(op) \o WS
          \o create_number_pattern(b)
      new_expression == ReSubFirst(pattern, result_str, expression)
      op_pattern == a_str \o WS \o <<BS>> \o op \o WS \o b_str
  IN  IF /\ Contains(expression, "(") /\ Contains(expression, ")")
         /\ ReSearch(parentheses_pattern, expression)[1] # 0
      THEN ReSubFirst(parentheses_pattern, result_str, expression)
      ELSE IF new_expression = expression
      THEN IF ReSearch(op_pattern, expression)[1] # 0
           THEN ReSubFirst(op_pattern, result_str, expression)
           ELSE result_str
      ELSE new_expression

\* reduce_expression(expression, a, b, op, result); op is the str the
\* tool call carried
reduce_expression(expression, a, b, op, result) ==
  LET a_str == float_to_str(a)
      b_str == float_to_str(b)
      result_str == float_to_str(result)
      parentheses_pattern ==
        <<BS, "(">> \o WS \o create_number_pattern(a) \o WS \o ReEscape(op)
          \o WS \o create_number_pattern(b) \o WS \o <<BS, ")">>
      pattern ==
        create_number_pattern(a) \o WS \o ReEscape(op) \o WS
          \o create_number_pattern(b)
      new_expression == ReSubFirst(pattern, result_str, expression)
      op_pattern == a_str \o WS \o <<BS>> \o op \o WS \o b_str
  IN  IF /\ Contains(expression, "(") /\ Contains(expression, ")")
         /\ ReSearch(parentheses_pattern, expression)[1] # 0
      THEN ReSubFirst(parentheses_pattern, result_str, expression)
      ELSE IF new_expression = expression
      THEN ReSubFirst(op_pattern, result_str, expression)
      ELSE new_expression

\* ------------------------------------------------------------------------
\* float(s) and eval(s) of Python, on the strings the agents hand them
\* ------------------------------------------------------------------------
RECURSIVE DigitRun(_, _)
DigitRun(s, pos) ==
  IF pos > Len(s) \/ s[pos] \notin AsciiDigits THEN 0
  ELSE 1 + DigitRun(s, pos + 1)

\* like DigitRun, for the digits float() accepts
RECURSIVE AnyDigitRun(_, _)
AnyDigitRun(s, pos) ==
  IF pos > Len(s) \/ ~IsDigit(s[pos]) THEN 0
  ELSE 1 + AnyDigitRun(s, pos + 1)

\* the value of the digits s[from..to] (0 for none)
RECURSIVE DigitsVal(_, _, _)
DigitsVal(s, from, to) ==
  IF to < from THEN 0
  ELSE 10 * DigitsVal(s, from, to - 1) + DigitVal(s[to])

\* float(s): blanks stripped, an optional sign, digits with an optional
\* point (the caller splits at the sign of an exponent float_to_str wrote,
\* so no side holds a whole exponent; inf and nan occur in no expression)
float(s0) ==
  LET s    == Strip(s0)
      sgn  == IF s # <<>> /\ s[1] = "-" THEN -1 ELSE 1
      p    == IF s # <<>> /\ s[1] \in {"+", "-"} THEN 2 ELSE 1
      r1   == AnyDigitRun(s, p)
      dot  == p + r1 <= Len(s) /\ s[p + r1] = "."
      r2   == IF dot THEN AnyDigitRun(s, p + r1 + 1) ELSE 0
      last == p + r1 + (IF dot THEN 1 + r2 ELSE 0) - 1
  IN  IF r1 + r2 = 0 \/ last # Len(s) THEN Raised("ValueError")
      ELSE PyFloat(sgn * (DigitsVal(s, p, p + r1 - 1) * Pow10(r2)
                            + DigitsVal(s, p + r1 + 1, p + r1 + r2)),
                   Pow10(r2))

Tok(k, v) == [k |-> k, v |-> v]
BadTok == Tok("bad", None)

\* the tokens of a Python expression; a text that is no token ends the
\* list with BadTok
RECURSIVE Tokenize(_, _)
Tokenize(s, pos) ==
  IF pos > Len(s) THEN <<>>
  ELSE
    LET c == s[pos]
        next(k) == IF pos + k <= Len(s) THEN s[pos + k] ELSE ""
    IN
    CASE IsSpace(c) -> Tokenize(s, pos + 1)
      [] c \in AsciiDigits ->
           LET r1  == DigitRun(s, pos)
               dot == next(r1) = "."
               r2  == IF dot THEN DigitRun(s, pos + r1 + 1) ELSE 0
               w   == r1 + (IF dot THEN 1 + r2 ELSE 0)
               iv  == DigitsVal(s, pos, pos + r1 - 1)
               \* an exponent: e or E, an optional sign, digits
               sg  == IF next(w) \in {"e", "E"} /\ next(w + 1) \in {"+", "-"}
                      THEN 1 ELSE 0
               r3  == IF next(w) \in {"e", "E"}
                      THEN DigitRun(s, pos + w + 1 + sg) ELSE 0
               wx  == w + 1 + sg + r3
               ev  == DigitsVal(s, pos + w + 1 + sg, pos + w + sg + r3)
               mn  == IF dot
                      THEN iv * Pow10(r2)
                             + DigitsVal(s, pos + r1 + 1, pos + r1 + r2)
                      ELSE iv
               md  == IF dot THEN Pow10(r2) ELSE 1
           IN  IF r3 > 0
               THEN IF IsWord(next(wx)) THEN <<BadTok>>
                    ELSE IF next(w + 1) = "-"
                    THEN <<Tok("num", PyFloat(mn, md * Pow10(ev)))>>
                           \o Tokenize(s, pos + wx)
                    ELSE <<Tok("num", PyFloat(mn * Pow10(ev), md))>>
                           \o Tokenize(s, pos + wx)
               ELSE IF IsWord(next(w)) THEN <<BadTok>>
               ELSE IF dot
               THEN <<Tok("num", PyFloat(iv * Pow10(r2)
                        + DigitsVal(s, pos + r1 + 1, pos + r1 + r2),
                        Pow10(r2)))>> \o Tokenize(s, pos + w)
               \* a decimal integer literal has no leading zero
               ELSE IF r1 > 1 /\ c = "0" /\ iv # 0 THEN <<BadTok>>
               ELSE <<Tok("num", PyInt(iv))>> \o Tokenize(s, pos + w)
      [] c = "." ->
           LET r2 == DigitRun(s, pos + 1)
           IN  IF r2 = 0 \/ IsWord(next(1 + r2)) THEN <<BadTok>>
               ELSE <<Tok("num", PyFloat(DigitsVal(s, pos + 1, pos + r2),
                                         Pow10(r2)))>>
                      \o Tokenize(s, pos + 1 + r2)
      [] c \in {"+", "-", "(", ")"} ->
           <<Tok("op", c)>> \o Tokenize(s, pos + 1)
      [] c \in {"*", "/"} ->
           IF next(1) = c
           THEN <<Tok("op", IF c = "*" THEN "**" ELSE "//")>>
                  \o Tokenize(s, pos + 2)
           ELSE <<Tok("op", c)>> \o Tokenize(s, pos + 1)
      [] OTHER -> <<BadTok>>

RECURSIVE IntPow(_, _)
IntPow(x, k) == IF k <= 0 THEN 1 ELSE x * IntPow(x, k - 1)

\* a value no rational stands for (a power with a fractional exponent)
Unmodelled == [t |-> "unmodelled"]

PyPow(a, b) ==
  IF b.d # 1 THEN Unmodelled
  ELSE IF b.n >= 0
  THEN Num(Wider(a, b), IntPow(a.n, b.n), IntPow(a.d, b.n))
  ELSE IF a.n = 0 THEN Raised("ZeroDivisionError")
  ELSE Num("float", IntPow(a.d, -b.n), IntPow(a.n, -b.n))

PyFloorDiv(a, b) ==
  IF b.n = 0 THEN Raised("ZeroDivisionError")
  ELSE LET sg == IF a.d * b.n < 0 THEN -1 ELSE 1
       IN  Num(Wider(a, b), Floor(sg * a.n * b.d, sg * a.d * b.n), 1)

\* x op y of Python on numbers and the empty tuple
BinOp(op, x, y) ==
  CASE IsRaised(x) -> x
    [] IsRaised(y) -> y
    [] x = Unmodelled \/ y = Unmodelled -> Unmodelled
    [] IsNumber(x) /\ IsNumber(y) ->
         (CASE op = "+" -> PyAdd(x, y)
            [] op = "-" -> PySub(x, y)
            [] op = "*" -> PyMul(x, y)
            [] op = "/" -> IF y.n = 0 THEN Raised("ZeroDivisionError")
                           ELSE PyTrueDiv(x, y)
            [] op = "//" -> PyFloorDiv(x, y)
            [] op = "**" -> PyPow(x, y))
    [] op = "+" /\ x = EmptyTuple /\ y = EmptyTuple -> EmptyTuple
    [] op = "*" /\ x = EmptyTuple /\ y.t = "int" -> EmptyTuple
    [] op = "*" /\ x.t = "int" /\ y = EmptyTuple -> EmptyTuple
    [] OTHER -> Raised("TypeError")

UnOp(op, x) ==
  CASE IsRaised(x) -> x
    [] x = Unmodelled -> x
    [] IsNumber(x) -> IF op = "-" THEN PyNeg(x) ELSE x
    [] OTHER -> Raised("TypeError")

Parsed(v, pos) == [v |-> v, pos |-> pos]
SyntaxError == Parsed(Raised("SyntaxError"), 0)

IsOp(toks, p, ops) == p <= Len(toks) /\ toks[p].k = "op" /\ toks[p].v \in ops

\* the expression grammar of Python over these tokens, evaluated while
\* parsed; every result is the value with the index of the next token
RECURSIVE PySum(_, _)
RECURSIVE PySumRest(_, _)
RECURSIVE PyTerm(_, _)
RECURSIVE PyTermRest(_, _)
RECURSIVE PyFactor(_, _)
RECURSIVE PyPower(_, _)
RECURSIVE PyAtom(_, _)

PyAtom(toks, p) ==
  IF p > Len(toks) THEN SyntaxError
  ELSE IF toks[p].k = "num" THEN Parsed(toks[p].v, p + 1)
  ELSE IF IsOp(toks, p, {"("})
  THEN IF IsOp(toks, p + 1, {")"}) THEN Parsed(EmptyTuple, p + 2)
       ELSE LET e == PySum(toks, p + 1)
            IN  IF IsRaised(e.v) THEN e
                ELSE IF IsOp(toks, e.pos, {")"}) THEN Parsed(e.v, e.pos + 1)
                ELSE SyntaxError
  ELSE SyntaxError

\* power: an atom, called when "(" follows (calling a number or a tuple
\* raises TypeError), with an optional ** factor
PyPower(toks, p) ==
  LET a == PyAtom(toks, p)
  IN  IF IsRaised(a.v) THEN a
      ELSE IF IsOp(toks, a.pos, {"("}) THEN Parsed(Raised("TypeError"), 0)
      ELSE IF IsOp(toks, a.pos, {"**"})
      THEN LET f == PyFactor(toks, a.pos + 1)
           IN  Parsed(BinOp("**", a.v, f.v), f.pos)
      ELSE a

PyFactor(toks, p) ==
  IF IsOp(toks, p, {"+", "-"})
  THEN LET f == PyFactor(toks, p + 1)
       IN  Parsed(UnOp(toks[p].v, f.v), f.pos)
  ELSE PyPower(toks, p)

PyTermRest(toks, acc) ==
  IF IsRaised(acc.v) \/ ~IsOp(toks, acc.pos, {"*", "/", "//"}) THEN acc
  ELSE LET f == PyFactor(toks, acc.pos + 1)
       IN  PyTermRest(toks, Parsed(BinOp(toks[acc.pos].v, acc.v, f.v), f.pos))

PyTerm(toks, p) == PyTermRest(toks, PyFactor(toks, p))

PySumRest(toks, acc) ==
  IF IsRaised(acc.v) \/ ~IsOp(toks, acc.pos, {"+", "-"}) THEN acc
  ELSE LET t == PyTerm(toks, acc.pos + 1)
       IN  PySumRest(toks, Parsed(BinOp(toks[acc.pos].v, acc.v, t.v), t.pos))

PySum(toks, p) == PySumRest(toks, PyTerm(toks, p))

\* eval(s): the value, or the exception raised
eval(s) ==
  LET toks == Tokenize(s, 1)
      r    == PySum(toks, 1)
  IN  IF IsRaised(r.v) THEN r.v
      ELSE IF r.pos # Len(toks) + 1 THEN Raised("SyntaxError")
      ELSE r.v

\* ------------------------------------------------------------------------
\* Tool calls
\* ------------------------------------------------------------------------
\* A tool call is [id, arguments].  The argument text is modelled by what
\* json.loads makes of it: [json |-> FALSE] is a text that is not JSON,
\* [json |-> TRUE, kv |-> <<<<key, value>>, ...>>] a JSON object with its
\* members in order (operands a and b are numbers).
KeyA == <<"a">>
KeyB == <<"b">>
KeyOp == <<"o", "p">>
KeyOpColon == <<"o", "p", ":">>
KeyFinal == <<"i", "s", "_", "f", "i", "n", "a", "l", "_", "s", "t", "e", "p">>

Args(kv) == [json |-> TRUE, kv |-> kv]
NotJson == [json |-> FALSE, kv |-> <<>>]

\* json.loads of an object: the last member of a name wins
JsonLoads(kv) ==
  LET keys == {kv[j][1] : j \in 1..Len(kv)}
      last(k) == CHOOSE j \in 1..Len(kv) :
                   /\ kv[j][1] = k
                   /\ \A m \in (j + 1)..Len(kv) : kv[m][1] # k
  IN  [k \in keys |-> kv[last(k)][2]]

\* arguments.replace("op:", "op") seen through json.loads: in the text of
\* a JSON object "op:" only occurs inside a member name or a string value
\* (a text that is not JSON stays so)
ReplaceOpColon(kv) ==
  [j \in 1..Len(kv) |->
     <<Replace(kv[j][1], KeyOpColon, KeyOp),
       IF kv[j][2].t = "str"
       THEN PyStr(Replace(kv[j][2].s, KeyOpColon, KeyOp))
       ELSE kv[j][2]>>]

HasAllKeys(d) == {KeyA, KeyB, KeyOp, KeyFinal} \subseteq DOMAIN d

Extracted(d) ==
  [ok |-> TRUE, a |-> d[KeyA], b |-> d[KeyB], op |-> d[KeyOp],
   is_final_step |-> d[KeyFinal]]

NotExtracted == [ok |-> FALSE]

\* the second try of _process_tool_calls: "op:" replaced in the text, the
\* four members read, nothing validated
extract_unvalidated(d) ==
  IF HasAllKeys(d) THEN Extracted(d) ELSE NotExtracted

parse_arguments_fix(arguments) ==
  IF ~arguments.json THEN NotExtracted
  ELSE extract_unvalidated(JsonLoads(ReplaceOpColon(arguments.kv)))

\* arguments_dict["op"] = arguments_dict["op:"] when "op:" is a member
\* and "op" is not
copy_op_colon(d) ==
  IF KeyOpColon \in DOMAIN d /\ KeyOp \notin DOMAIN d
  THEN [k \in DOMAIN d \cup {KeyOp} |-> IF k = KeyOp THEN d[KeyOpColon] ELSE d[k]]
  ELSE d

\* the four members read and op checked to be a str among + - * /
\* (NotExtracted stands for the KeyError or ValueError)
extract_validated(d) ==
  IF ~HasAllKeys(d) THEN NotExtracted
  ELSE IF d[KeyOp].t # "str" THEN NotExtracted
  ELSE IF d[KeyOp].s \notin Ops THEN NotExtracted
  ELSE Extracted(d)

\* the first try of _process_tool_calls (NotExtracted stands for the
\* JSONDecodeError, KeyError or ValueError that leads to the second try)
parse_arguments_try(arguments) ==
  IF ~arguments.json THEN NotExtracted
  ELSE extract_validated(copy_op_colon(JsonLoads(arguments.kv)))

\* the outcome of the first try, or of the second try when the first
\* one failed
first_or_fix(arguments, first) ==
  IF first.ok THEN first ELSE parse_arguments_fix(arguments)

\* parse_arguments without either repair of the key "op:"
parse_arguments_unrepaired(arguments) ==
  IF ~arguments.json THEN NotExtracted
  ELSE extract_validated(JsonLoads(arguments.kv))

\* the arguments of a tool call as _process_tool_calls reads them
parse_arguments(arguments) ==
  first_or_fix(arguments, parse_arguments_try(arguments))

\* f"{a} {op} {b} = {result}"
StepRecord(a, op, b, result) ==
  Str(a) \o <<" ">> \o Str(op) \o <<" ">> \o Str(b) \o <<" ", "=", " ">>
    \o Str(result)

\* The outcome of _process_tool_calls: the fields of the ToolCallResult,
\* raised (None, or the error that ended the turn) and calculated, the
\* arguments of every call made to calculate.
NewToolCallResult(expression) ==
  [raised |-> None, results |-> <<>>, is_final_step |-> PyBool(FALSE),
   call_steps |-> <<>>, remaining_expression |-> expression,
   calculated |-> <<>>]

\* record_tool_call with is_final_step the logical OR over the calls
record_tool_call_any_final(acc, tool_call, reducing, args, result) ==
  IF IsRaised(result)
  THEN [acc EXCEPT !.raised = result,
                   !.calculated = Append(@, <<args.a, args.b, args.op>>)]
  ELSE [raised |-> None,
        results |-> Append(acc.results, <<result, tool_call.id>>),
        is_final_step |-> PyBool(Truthy(acc.is_final_step)
                                   \/ Truthy(args.is_final_step)),
        call_steps |-> Append(acc.call_steps,
                              StepRecord(args.a, args.op, args.b, result)),
        remaining_expression |->
            IF reducing
            THEN reduce_expression(acc.remaining_expression,
                                   args.a, args.b, args.op.s, result)
            ELSE acc.remaining_expression,
        calculated |-> Append(acc.calculated, <<args.a, args.b, args.op>>)]

\* the body of the loop over the tool calls, for one call, from the
\* result of calculate on: the result, the step and (Reducing agent) the
\* reduced expression recorded
record_tool_call(acc, tool_call, reducing, args, result) ==
  IF IsRaised(result)
  THEN [acc EXCEPT !.raised = result,
                   !.calculated = Append(@, <<args.a, args.b, args.op>>)]
  ELSE [raised |-> None,
        results |-> Append(acc.results, <<result, tool_call.id>>),
        is_final_step |-> args.is_final_step,
        call_steps |-> Append(acc.call_steps,
                              StepRecord(args.a, args.op, args.b, result)),
        remaining_expression |->
            IF reducing
            THEN reduce_expression(acc.remaining_expression,
                                   args.a, args.b, args.op.s, result)
            ELSE acc.remaining_expression,
        calculated |-> Append(acc.calculated, <<args.a, args.b, args.op>>)]

\* a failing tool call skipped instead of ending the turn
calculate_tool_call_skipping(acc, tool_call, reducing, args) ==
  IF ~args.ok THEN acc
  ELSE IF IsRaised(calculate(args.a, args.b, args.op)) THEN acc
  ELSE record_tool_call(acc, tool_call, reducing, args,
                        calculate(args.a, args.b, args.op))

\* the same body from the parsed arguments on: the call of calculate
calculate_tool_call(acc, tool_call, reducing, args) ==
  IF ~args.ok THEN [acc EXCEPT !.raised = Raised("MalformedArguments")]
  ELSE record_tool_call(acc, tool_call, reducing, args,
                        calculate(args.a, args.b, args.op))

\* the body of the loop over the tool calls, for one call
process_tool_call(acc, tool_call, reducing) ==
  IF acc.raised # None THEN acc
  ELSE calculate_tool_call(acc, tool_call, reducing,
                           parse_arguments(tool_call.arguments))

RECURSIVE process_tool_calls_from(_, _, _, _)
process_tool_calls_from(acc, tool_calls, k, reducing) ==
  IF k > Len(tool_calls) THEN acc
  ELSE process_tool_calls_from(process_tool_call(acc, tool_calls[k], reducing),
                               tool_calls, k + 1, reducing)

\* _process_tool_calls without its check for an empty response
Stepwise_process_tool_calls_unguarded(tool_calls) ==
  process_tool_calls_from(NewToolCallResult(<<>>), tool_calls, 1, FALSE)

\* StepwiseCalculatorAgent._process_tool_calls
Stepwise_process_tool_calls(tool_calls) ==
  IF tool_calls = <<>>
  THEN [NewToolCallResult(<<>>) EXCEPT !.raised = Raised("NoToolCall")]
  ELSE process_tool_calls_from(NewToolCallResult(<<>>), tool_calls, 1, FALSE)

\* _process_tool_calls with every call reduced against the expression the
\* turn started from: the expression returned is that of the last call
Reducing_process_tool_calls_unfolded(tool_calls, expression) ==
  IF tool_calls = <<>>
  THEN [NewToolCallResult(expression) EXCEPT !.raised = Raised("NoToolCall")]
  ELSE [process_tool_calls_from(NewToolCallResult(expression), tool_calls, 1,
                                TRUE)
          EXCEPT !.remaining_expression =
            process_tool_calls_from(NewToolCallResult(expression),
                                    <<tool_calls[Len(tool_calls)]>>, 1, TRUE)
              .remaining_expression]

\* ReducingCalculatorAgent._process_tool_calls
Reducing_process_tool_calls(tool_calls, expression) ==
  IF tool_calls = <<>>
  THEN [NewToolCallResult(expression) EXCEPT !.raised = Raised("NoToolCall")]
  ELSE process_tool_calls_from(NewToolCallResult(expression), tool_calls, 1,
                               TRUE)

\* ------------------------------------------------------------------------
\* Messages and printed lines
\* ------------------------------------------------------------------------
\* MessageHistory (src.llm.chatgpt) is a list of messages
SystemMessage(content) == [role |-> "system", content |-> content]
UserMessage(content) == [role |-> "user", content |-> content]
GenericMessage(response) == [role |-> "assistant", tool_calls |-> response]
ToolResultMessage(result, id) ==
  [role |-> "tool", content |-> result, tool_call_id |-> id]

\* a prompt template of the configuration with its placeholders replaced
Prompt(template, expression, steps_so_far) ==
  [template |-> template, EXPRESSION |-> expression,
   STEPS_SO_FAR |-> steps_so_far]

\* the lines run prints for its callers (the diagnostics that
\* _process_tool_calls prints about each tool call are left out)
LineInput(e) == [line |-> "Input expression", text |-> e]
LineBegin == [line |-> "--- CALCULATION STEPS BEGIN ---"]
LineEnd == [line |-> "--- CALCULATION STEPS END ---"]
\* the final line printed without the value returned
LineFinal_unvalued(v) == [line |-> "Final result", value |-> None]
LineFinal(v) == [line |-> "Final result", value |-> v]
\* the line of a turn with the step of its last call only
LineStep_last(i, call_steps) ==
  [line |-> "Step", n |-> i, text |-> call_steps[Len(call_steps)]]
LineStep(i, call_steps) ==
  [line |-> "Step", n |-> i,
   text |-> Join(<<" ", " ", " ", " ", ",", " ", " ", " ">>, call_steps)]
LineParentheses ==
  [line |-> "Expression contains parentheses - pre-processing to simplify"]
LineWarning(e) == [line |-> "Warning: possible loop detected", text |-> e]
LineFallback(v) == [line |-> "Fallback calculation", value |-> v]
LineReachedMax(v) ==
  [line |-> "Reached max calls but resolved with direct evaluation",
   value |-> v]
LineStepRemaining(i, call_steps, expression) ==
  [line |-> "Step", n |-> i,
   text |-> Join(<<" ", " ", " ", " ", ",", " ", " ", " ">>, call_steps),
   remaining |-> expression]

\* ------------------------------------------------------------------------
\* StepwiseCalculatorAgent.run (src/src/agents/stepwise_agent.py)
\* ------------------------------------------------------------------------
\* The locals of one call of run.  pc: "idle" before the call,
\* "await_model" while llm_client.run_prompt is out, "returned", "raised".
StepwiseIdle ==
  [pc |-> "idle", expression |-> <<>>, prompt_msg |-> <<>>, steps |-> <<>>,
   final_result |-> None, i |-> 1, error |-> "", llm_calls |-> 0,
   response |-> <<>>, result |-> NewToolCallResult(<<>>), output |-> <<>>]

\* the next prompt built from the last step alone instead of the log
Stepwise_prepare_next_prompt_latest(config, prompt_msg, expression, steps, results, response) ==
  LET next_prompt == Prompt("subsequent_prompt", expression,
                            IF steps = <<>> THEN <<>> ELSE steps[Len(steps)])
      tool_msgs == [j \in 1..Len(results) |->
                      ToolResultMessage(results[j][1], results[j][2])]
  IN  IF config.append_messages
      THEN (IF config.return_tool_call_msgs
            THEN prompt_msg \o <<GenericMessage(response)>> \o tool_msgs
            ELSE prompt_msg) \o <<UserMessage(next_prompt)>>
      ELSE <<SystemMessage("system_prompt"), UserMessage(next_prompt)>>

\* the next prompt appended to the history whatever append_messages is
Stepwise_prepare_next_prompt_appending(config, prompt_msg, expression, steps, results, response) ==
  LET next_prompt == Prompt("subsequent_prompt", expression,
                            Join(<<"\n">>, steps))
      tool_msgs == [j \in 1..Len(results) |->
                      ToolResultMessage(results[j][1], results[j][2])]
  IN  (IF config.return_tool_call_msgs
       THEN prompt_msg \o <<GenericMessage(response)>> \o tool_msgs
       ELSE prompt_msg) \o <<UserMessage(next_prompt)>>

\* the tool results placed before the message of the model they answer
Stepwise_prepare_next_prompt_unordered(config, prompt_msg, expression, steps, results, response) ==
  LET next_prompt == Prompt("subsequent_prompt", expression,
                            Join(<<"\n">>, steps))
      tool_msgs == [j \in 1..Len(results) |->
                      ToolResultMessage(results[j][1], results[j][2])]
  IN  IF config.append_messages
      THEN (IF config.return_tool_call_msgs
            THEN prompt_msg \o tool_msgs \o <<GenericMessage(response)>>
            ELSE prompt_msg) \o <<UserMessage(next_prompt)>>
      ELSE <<SystemMessage("system_prompt"), UserMessage(next_prompt)>>

\* _prepare_next_prompt
Stepwise_prepare_next_prompt(config, prompt_msg, expression, steps, results, response) ==
  LET next_prompt == Prompt("subsequent_prompt", expression,
                            Join(<<"\n">>, steps))
      tool_msgs == [j \in 1..Len(results) |->
                      ToolResultMessage(results[j][1], results[j][2])]
  IN  IF config.append_messages
      THEN (IF config.return_tool_call_msgs
            THEN prompt_msg \o <<GenericMessage(response)>> \o tool_msgs
            ELSE prompt_msg) \o <<UserMessage(next_prompt)>>
      ELSE <<SystemMessage("system_prompt"), UserMessage(next_prompt)>>

\* run up to its first call of the model
Stepwise_run(config, expression) ==
  LET printed == <<LineInput(expression), LineBegin>>
      valid == validate_expression(expression, config.max_expression_length)
  IN  IF IsRaised(valid)
      THEN [StepwiseIdle EXCEPT !.pc = "raised", !.error = valid.e,
                                !.expression = expression,
                                !.output = printed]
      ELSE [StepwiseIdle EXCEPT
              !.pc = "await_model", !.expression = expression,
              !.output = printed,
              !.prompt_msg = <<SystemMessage("system_prompt"),
                               UserMessage(Prompt("initial_prompt",
                                                  expression, <<>>))>>]

\* the result of the first call of the turn instead of the last
Stepwise_first_result(results) == results[1][1]

\* result.results[-1][0]
Stepwise_last_result(results) == results[Len(results)][1]

\* the budget check one turn late
Stepwise_budget_exceeded(i, max_llm_calls) == i > max_llm_calls

\* the budget check one turn early
Stepwise_budget_early(i, max_llm_calls) == i + 1 >= max_llm_calls

\* i >= self.max_llm_calls
Stepwise_budget_exhausted(i, max_llm_calls) == i >= max_llm_calls

\* one iteration of the loop of run from the ToolCallResult on: to the
\* next call of the model, the return or the exception
Stepwise_run_step(config, st, tool_calls, result) ==
  LET called == [st EXCEPT !.llm_calls = @ + 1, !.response = tool_calls,
                           !.result = result]
  IN  IF result.raised # None
      THEN [called EXCEPT !.pc = "raised", !.error = result.raised.e]
      ELSE
        LET printed == Append(st.output, LineStep(st.i, result.call_steps))
        IN  IF Truthy(result.is_final_step)
            THEN LET final_result == Stepwise_last_result(result.results)
                 IN  [called EXCEPT
                        !.pc = "returned", !.final_result = final_result,
                        !.output = printed
                                     \o <<LineFinal(final_result), LineEnd>>]
            ELSE
              LET steps == st.steps \o result.call_steps
                  prompt_msg == Stepwise_prepare_next_prompt(config,
                                  st.prompt_msg, st.expression, steps,
                                  result.results, tool_calls)
                  looped == [called EXCEPT !.steps = steps,
                                           !.prompt_msg = prompt_msg,
                                           !.output = printed]
              IN  IF Stepwise_budget_exhausted(st.i, config.max_llm_calls)
                  THEN [looped EXCEPT !.pc = "raised",
                                      !.error = "MaxCallsExceeded"]
                  ELSE [looped EXCEPT !.i = @ + 1]

\* one iteration of the loop of run: from the model's response to the
\* next call of the model, the return or the exception
Stepwise_run_loop(config, st, tool_calls) ==
  Stepwise_run_step(config, st, tool_calls,
                    Stepwise_process_tool_calls(tool_calls))

\* ------------------------------------------------------------------------
\* ReducingCalculatorAgent.run (src/src/agents/reducing_agent.py)
\* ------------------------------------------------------------------------
\* via names the return statement taken: "final_step", "loop_fallback",
\* "direct_evaluation"
ReducingIdle ==
  [pc |-> "idle", input |-> <<>>, expression |-> <<>>, prompt_msg |-> <<>>,
   steps |-> <<>>, final_result |-> None, i |-> 1,
   previous_expressions |-> {}, error |-> "", llm_calls |-> 0,
   response |-> <<>>, result |-> NewToolCallResult(<<>>), output |-> <<>>,
   via |-> ""]

Reducing_prepare_next_prompt(expression) ==
  <<SystemMessage("system_prompt"),
    UserMessage(Prompt("prompt", expression, <<>>))>>

\* str.split(op) of a string that holds op once
SplitOnce(s, op) ==
  LET k == CHOOSE j \in 1..Len(s) : s[j] = op
  IN  <<SubSeq(s, 1, k - 1), SubSeq(s, k + 1, Len(s))>>

OperatorCount(expression) ==
  Count(expression, "+") + Count(expression, "-")
    + Count(expression, "*") + Count(expression, "/")

\* a loop check that only warns
SingleOperatorFallback_skipped(expression) == [applies |-> FALSE]

\* a loop check that returns without a value when it cannot evaluate
SingleOperatorFallback_valueless(expression) ==
  [applies |-> TRUE, final_result |-> None]

\* the evaluation with its division left unguarded: the error of a / 0 is
\* caught with those of float() and the check goes on without a value
SingleOperatorFallback_unguarded(expression) ==
  IF OperatorCount(expression) # 1 THEN [applies |-> FALSE]
  ELSE
    LET op == CHOOSE o \in {"+", "-", "*", "/"} : Contains(expression, o)
        parts == SplitOnce(expression, op)
        a == float(Strip(parts[1]))
        b == float(Strip(parts[2]))
    IN  IF IsRaised(a) \/ IsRaised(b) THEN [applies |-> FALSE]
        ELSE IF op = "/" /\ b.n = 0 THEN [applies |-> FALSE]
        ELSE [applies |-> TRUE,
              final_result |->
                CASE op = "+" -> PyAdd(a, b)
                  [] op = "-" -> PySub(a, b)
                  [] op = "*" -> PyMul(a, b)
                  [] OTHER -> PyTrueDiv(a, b)]

\* The evaluation tried when the expression was seen before: applies to
\* an expression with one operator whose two sides float() accepts, and
\* leaves final_result as it was (None) for a division by zero.
SingleOperatorFallback(expression) ==
  IF OperatorCount(expression) # 1 THEN [applies |-> FALSE]
  ELSE
    LET op == CHOOSE o \in {"+", "-", "*", "/"} : Contains(expression, o)
        parts == SplitOnce(expression, op)
        a == float(Strip(parts[1]))
        b == float(Strip(parts[2]))
    IN  IF IsRaised(a) \/ IsRaised(b) THEN [applies |-> FALSE]
        ELSE [applies |-> TRUE,
              final_result |->
                CASE op = "+" -> PyAdd(a, b)
                  [] op = "-" -> PySub(a, b)
                  [] op = "*" -> PyMul(a, b)
                  [] op = "/" /\ b.n # 0 -> PyTrueDiv(a, b)
                  [] OTHER -> None]

\* run up to its first call of the model
Reducing_run(config, expression) ==
  LET printed == <<LineInput(expression), LineBegin>>
      valid == validate_expression(expression, config.max_expression_length)
  IN  IF IsRaised(valid)
      THEN [ReducingIdle EXCEPT !.pc = "raised", !.error = valid.e,
                                !.input = expression,
                                !.expression = expression,
                                !.output = printed]
      ELSE [ReducingIdle EXCEPT
              !.pc = "await_model", !.input = expression,
              !.expression = expression,
              !.output = printed \o (IF Contains(expression, "(")
                                     THEN <<LineParentheses>> ELSE <<>>),
              !.previous_expressions = {expression},
              !.prompt_msg = Reducing_prepare_next_prompt(expression)]

\* result.results[-1][0]
Reducing_last_result(results) == results[Len(results)][1]

\* i >= self.max_llm_calls
Reducing_budget_exhausted(i, max_llm_calls) == i >= max_llm_calls

\* one iteration of the loop of run from the ToolCallResult on: to the
\* next call of the model, the return or the exception.  fallback is the
\* single-operator evaluation of the reduced expression and value its
\* eval, each used where run computes it.
Reducing_run_step(config, st, tool_calls, result, fallback, value) ==
  LET called == [st EXCEPT !.llm_calls = @ + 1, !.response = tool_calls,
                           !.result = result]
  IN  IF result.raised # None
      THEN [called EXCEPT !.pc = "raised", !.error = result.raised.e]
      ELSE
        LET expression == result.remaining_expression
            seen == expression \in st.previous_expressions
            printed == Append(st.output,
                         LineStepRemaining(st.i, result.call_steps,
                                           expression))
                         \o (IF seen THEN <<LineWarning(expression)>>
                             ELSE <<>>)
            stepped == [called EXCEPT
                          !.expression = expression, !.output = printed,
                          !.previous_expressions = @ \cup {expression}]
        IN  IF seen /\ fallback.applies
            THEN [called EXCEPT
                    !.pc = "returned", !.via = "loop_fallback",
                    !.expression = expression,
                    !.final_result = fallback.final_result,
                    !.output = printed
                       \o <<LineFallback(fallback.final_result),
                            LineFinal(fallback.final_result), LineEnd>>]
            ELSE IF Truthy(result.is_final_step)
            THEN LET final_result == Reducing_last_result(result.results)
                 IN  [stepped EXCEPT
                        !.pc = "returned", !.via = "final_step",
                        !.final_result = final_result,
                        !.output = printed
                                     \o <<LineFinal(final_result), LineEnd>>]
            ELSE
              LET looped == [stepped EXCEPT
                               !.steps = @ \o result.call_steps]
              IN  IF Reducing_budget_exhausted(st.i, config.max_llm_calls)
                  THEN IF IsRaised(value)
                       THEN [looped EXCEPT !.pc = "raised",
                                           !.error = "MaxCallsExceeded"]
                       ELSE [looped EXCEPT
                               !.pc = "returned",
                               !.via = "direct_evaluation",
                               !.final_result = value,
                               !.output = printed
                                  \o <<LineReachedMax(value),
                                       LineFinal(value), LineEnd>>]
                  ELSE [looped EXCEPT
                          !.i = @ + 1,
                          !.prompt_msg =
                             Reducing_prepare_next_prompt(expression)]

\* the direct evaluation applied to the original expression
Reducing_tool_calls_done_original(config, st, tool_calls, result) ==
  Reducing_run_step(config, st, tool_calls, result,
                    SingleOperatorFallback(result.remaining_expression),
                    eval(st.input))

\* a turn that finds a loop it cannot resolve is not counted: the model is
\* asked again about the same expression
Reducing_tool_calls_done_uncounted(config, st, tool_calls, result) ==
  IF /\ result.raised = None
     /\ result.remaining_expression \in st.previous_expressions
     /\ ~SingleOperatorFallback(result.remaining_expression).applies
     /\ ~Truthy(result.is_final_step)
  THEN [st EXCEPT !.response = tool_calls, !.result = result]
  ELSE Reducing_run_step(config, st, tool_calls, result,
                         SingleOperatorFallback(result.remaining_expression),
                         eval(result.remaining_expression))

\* the ToolCallResult of the turn handed to the rest of the iteration,
\* with the two evaluations of the reduced expression run may make
Reducing_tool_calls_done(config, st, tool_calls, result) ==
  Reducing_run_step(config, st, tool_calls, result,
                    SingleOperatorFallback(result.remaining_expression),
                    eval(result.remaining_expression))

\* one iteration of the loop of run: from the model's response to the
\* next call of the model, the return or the exception
Reducing_run_loop(config, st, tool_calls) ==
  Reducing_tool_calls_done(config, st, tool_calls,
      Reducing_process_tool_calls(tool_calls, st.expression))

\* ------------------------------------------------------------------------
\* Inputs
\* ------------------------------------------------------------------------
\* the configured max_expression_length
MaxExpressionLength == 18

\* "5 + 5 * 2"
ExprTwoStep == <<"5", " ", "+", " ", "5", " ", "*", " ", "2">>
\* "5 + 5"
ExprLoop == <<"5", " ", "+", " ", "5">>
\* "5 + 5 / 0"
ExprDivZero == <<"5", " ", "+", " ", "5", " ", "/", " ", "0">>
\* "10 + 5 * 3 - 8 / 2"
ExprRoundTrip == <<"1", "0", " ", "+", " ", "5", " ", "*", " ", "3", " ", "-", " ", "8", " ", "/", " ", "2">>
\* U+0663 followed by " + 2"
ExprArabic == <<ArabicThree, " ", "+", " ", "2">>
\* "2 ^ 3"
ExprBadChar == <<"2", " ", "^", " ", "3">>
\* "10 + 5 * 3 - 8 / 2 + 1", longer than MaxExpressionLength
ExprTooLong == <<"1", "0", " ", "+", " ", "5", " ", "*", " ", "3", " ", "-", " ", "8", " ", "/", " ", "2", " ", "+", " ", "1">>

Expressions ==
  {ExprTwoStep, ExprLoop, ExprDivZero, ExprArabic, ExprBadChar, ExprTooLong,
   <<>>}

Call(a, b, op, is_final_step) ==
  Args(<<<<KeyA, PyInt(a)>>, <<KeyB, PyInt(b)>>, <<KeyOp, PyStr(op)>>,
         <<KeyFinal, PyBool(is_final_step)>>>>)

\* the argument texts the model answers with
Menu ==
  {Call(5, 2, <<"*">>, FALSE), Call(5, 10, <<"+">>, TRUE),
   Call(5, 5, <<"+">>, FALSE), Call(5, 0, <<"/">>, FALSE)}

\* response.tool_calls for the given argument texts
ToolCalls(arguments) ==
  [j \in 1..Len(arguments) |-> [id |-> j, arguments |-> arguments[j]]]

\* the responses of the model: up to most tool calls, none included
Responses(menu, most) ==
  {ToolCalls(as) : as \in UNION {[1..n -> menu] : n \in 0..most}}

StepwiseConfigs ==
  [max_expression_length : {MaxExpressionLength},
   max_llm_calls : 0..MaxLlmCalls,
   append_messages : BOOLEAN, return_tool_call_msgs : BOOLEAN]

ReducingConfigs ==
  [max_expression_length : {MaxExpressionLength},
   max_llm_calls : 0..MaxLlmCalls]

IsStepwiseConfig(c) == "append_messages" \in DOMAIN c

\* ------------------------------------------------------------------------
\* The state machine
\* ------------------------------------------------------------------------
VARIABLES
  config,   \* the configuration the agent was constructed with
  stepwise, \* the locals of the call of StepwiseCalculatorAgent.run
  reducing, \* the locals of the call of ReducingCalculatorAgent.run
  call,     \* a function applied on its own: its input and its outcome
  orchestrator \* the fields of the CalculatorOrchestrator

vars == <<config, stepwise, reducing, call, orchestrator>>

NoCall == [f |-> "none", done |-> TRUE]

\* no CalculatorOrchestrator is constructed
NoOrchestrator == [agent_type |-> <<>>]

\* an agent constructed with some configuration, run not yet called
Init ==
  /\ config \in StepwiseConfigs \cup ReducingConfigs
  /\ stepwise = StepwiseIdle
  /\ reducing = ReducingIdle
  /\ call = NoCall
  /\ orchestrator = NoOrchestrator

\* orchestrator.calculate(expression) with a Stepwise agent
StepwiseRun(expression) ==
  /\ IsStepwiseConfig(config)
  /\ stepwise.pc = "idle"
  /\ stepwise' = Stepwise_run(config, expression)
  /\ UNCHANGED <<config, reducing, call, orchestrator>>

\* the model answers the Stepwise agent
StepwiseReply(tool_calls) ==
  /\ stepwise.pc = "await_model"
  /\ stepwise' = Stepwise_run_loop(config, stepwise, tool_calls)
  /\ UNCHANGED <<config, reducing, call, orchestrator>>

\* orchestrator.calculate(expression) with a Reducing agent
ReducingRun(expression) ==
  /\ ~IsStepwiseConfig(config)
  /\ reducing.pc = "idle"
  /\ reducing' = Reducing_run(config, expression)
  /\ UNCHANGED <<config, stepwise, call, orchestrator>>

\* the model answers the Reducing agent
ReducingReply(tool_calls) ==
  /\ reducing.pc = "await_model"
  /\ reducing' = Reducing_run_loop(config, reducing, tool_calls)
  /\ UNCHANGED <<config, stepwise, call, orchestrator>>

Next ==
  \/ \E e \in Expressions : StepwiseRun(e)
  \/ \E tc \in Responses(Menu, MaxCallsPerTurn) : StepwiseReply(tc)
  \/ \E e \in Expressions : ReducingRun(e)
  \/ \E tc \in Responses(Menu, MaxCallsPerTurn) : ReducingReply(tc)

Spec == Init /\ [][Next]_vars

\* ------------------------------------------------------------------------
\* Both agents driven by the same model turns
\* ------------------------------------------------------------------------
\* the calls of the round-trip scenario
PairMenu ==
  {Call(5, 3, <<"*">>, FALSE), Call(8, 2, <<"/">>, FALSE),
   Call(10, 15, <<"+">>, FALSE), Call(25, 4, <<"-">>, TRUE)}

PairExpressions == {ExprRoundTrip, ExprLoop}

\* one configuration read by both agents
PairConfigs ==
  [max_expression_length : {MaxExpressionLength},
   max_llm_calls : {MaxPairLlmCalls},
   append_messages : {FALSE}, return_tool_call_msgs : {FALSE}]

InitBoth ==
  /\ config \in PairConfigs
  /\ stepwise = StepwiseIdle
  /\ reducing = ReducingIdle
  /\ call = NoCall
  /\ orchestrator = NoOrchestrator

\* run(expression) of a Stepwise and of a Reducing agent
BothRun(expression) ==
  /\ stepwise.pc = "idle"
  /\ reducing.pc = "idle"
  /\ stepwise' = Stepwise_run(config, expression)
  /\ reducing' = Reducing_run(config, expression)
  /\ UNCHANGED <<config, call, orchestrator>>

\* the next turn of the model, answered to each agent that awaits it
BothReply(tool_calls) ==
  /\ stepwise.pc = "await_model" \/ reducing.pc = "await_model"
  /\ stepwise' = IF stepwise.pc = "await_model"
                 THEN Stepwise_run_loop(config, stepwise, tool_calls)
                 ELSE stepwise
  /\ reducing' = IF reducing.pc = "await_model"
                 THEN Reducing_run_loop(config, reducing, tool_calls)
                 ELSE reducing
  /\ UNCHANGED <<config, call, orchestrator>>

NextBoth ==
  \/ \E e \in PairExpressions : BothRun(e)
  \/ \E tc \in Responses(PairMenu, MaxPairCallsPerTurn) : BothReply(tc)

SpecBoth == InitBoth /\ [][NextBoth]_vars

\* ------------------------------------------------------------------------
\* validate_expression applied on its own
\* ------------------------------------------------------------------------
\* characters of the expressions validated: a digit, the Arabic-Indic
\* digit, a blank, an operator, a parenthesis, the point and two
\* characters outside the pattern
ValidateAlphabet == {"5", ArabicThree, " ", "+", ")", ".", "^", "x"}

\* the strings over an alphabet of at most the given length
Strings(alphabet, most) == UNION {[1..n -> alphabet] : n \in 0..most}

InitValidate ==
  /\ config \in [max_expression_length : 0..MaxValidateLen]
  /\ stepwise = StepwiseIdle
  /\ reducing = ReducingIdle
  /\ call = NoCall
  /\ orchestrator = NoOrchestrator

\* validate_expression(expression, config['max_expression_length'])
Validate(expression) ==
  /\ call = NoCall
  /\ call' = [f |-> "validate_expression", done |-> TRUE,
              expression |-> expression,
              max_expression_length |-> config.max_expression_length,
              outcome |-> validate_expression(expression,
                                              config.max_expression_length)]
  /\ UNCHANGED <<config, stepwise, reducing, orchestrator>>

NextValidate ==
  \E e \in Strings(ValidateAlphabet, MaxValidateLen) : Validate(e)

SpecValidate == InitValidate /\ [][NextValidate]_vars

\* ------------------------------------------------------------------------
\* _process_tool_calls applied on its own
\* ------------------------------------------------------------------------
\* "1 + 2", the expression the Reducing agent folds the calls into
ExprInterp == <<"1", " ", "+", " ", "2">>

\* {"a": a, "b": b, "op:": op, "is_final_step": f}
CallOpColon(a, b, op, is_final_step) ==
  Args(<<<<KeyA, PyInt(a)>>, <<KeyB, PyInt(b)>>, <<KeyOpColon, PyStr(op)>>,
         <<KeyFinal, PyBool(is_final_step)>>>>)

\* the argument texts handed to _process_tool_calls: the four operators
\* under the key "op" and under the key "op:", a division by zero, an op
\* outside + - * /, a padded op, an op that is no str, a missing member,
\* a text that is no JSON, and both keys in one payload
InterpMenu ==
  {Call(1, 2, op, f) : op \in Ops, f \in BOOLEAN}
    \cup {CallOpColon(1, 2, op, f) : op \in Ops, f \in BOOLEAN}
    \cup {Call(1, 0, <<"/">>, FALSE),
          Call(1, 2, <<"^">>, FALSE),
          Call(1, 2, <<" ", "+", " ">>, FALSE),
          Args(<<<<KeyA, PyInt(1)>>, <<KeyB, PyInt(2)>>, <<KeyOp, PyInt(5)>>,
                 <<KeyFinal, PyBool(TRUE)>>>>),
          Args(<<<<KeyA, PyInt(1)>>, <<KeyB, PyInt(2)>>,
                 <<KeyFinal, PyBool(TRUE)>>>>),
          NotJson,
          Args(<<<<KeyA, PyInt(1)>>, <<KeyB, PyInt(2)>>,
                 <<KeyOp, PyStr(<<"^">>)>>, <<KeyOpColon, PyStr(<<"+">>)>>,
                 <<KeyFinal, PyBool(FALSE)>>>>)}

InitInterp ==
  /\ config \in ReducingConfigs
  /\ stepwise = StepwiseIdle
  /\ reducing = ReducingIdle
  /\ call = NoCall
  /\ orchestrator = NoOrchestrator

\* StepwiseCalculatorAgent._process_tool_calls(response)
StepwiseInterpret(tool_calls) ==
  /\ call = NoCall
  /\ call' = [f |-> "_process_tool_calls", done |-> TRUE,
              agent |-> "stepwise", tool_calls |-> tool_calls,
              result |-> Stepwise_process_tool_calls(tool_calls)]
  /\ UNCHANGED <<config, stepwise, reducing, orchestrator>>

\* ReducingCalculatorAgent._process_tool_calls(response, expression)
ReducingInterpret(tool_calls) ==
  /\ call = NoCall
  /\ call' = [f |-> "_process_tool_calls", done |-> TRUE,
              agent |-> "reducing", tool_calls |-> tool_calls,
              result |-> Reducing_process_tool_calls(tool_calls, ExprInterp)]
  /\ UNCHANGED <<config, stepwise, reducing, orchestrator>>

NextInterp ==
  \/ \E tc \in Responses(InterpMenu, MaxInterpCalls) : StepwiseInterpret(tc)
  \/ \E tc \in Responses(InterpMenu, MaxInterpCalls) : ReducingInterpret(tc)

SpecInterp == InitInterp /\ [][NextInterp]_vars

\* ------------------------------------------------------------------------
\* Properties of the runs (under Spec)
\* ------------------------------------------------------------------------
\* the Stepwise run can call the model (again)
StepwiseCallsModel ==
  ENABLED (\E tc \in Responses(Menu, MaxCallsPerTurn) : StepwiseReply(tc))

\* the Reducing run can call the model (again)
ReducingCallsModel ==
  ENABLED (\E tc \in Responses(Menu, MaxCallsPerTurn) : ReducingReply(tc))

\* the last turn of the Stepwise run was processed without an error
StepwiseTurnDone == stepwise.llm_calls >= 1 /\ stepwise.result.raised = None

\* the last turn of the Reducing run was processed without an error
ReducingTurnDone == reducing.llm_calls >= 1 /\ reducing.result.raised = None

\* C1: the Stepwise run returns at the first turn whose ToolCallResult
\* has is_final_step true; the value returned is the last result recorded
\* in that turn, the result of the last tool call of the response; no
\* model call follows.
C1_StepwiseReturnsAtFirstFinalTurn ==
  LET r == stepwise.result
      n == Len(stepwise.response)
  IN  /\ (StepwiseTurnDone /\ Truthy(r.is_final_step)) =>
           /\ stepwise.pc = "returned"
           /\ Len(r.results) = n
           /\ stepwise.final_result = r.results[n][1]
           /\ r.results[n][2] = stepwise.response[n].id
           /\ stepwise.final_result
                = calculate(r.calculated[n][1], r.calculated[n][2],
                            r.calculated[n][3])
           /\ ~StepwiseCallsModel
      /\ stepwise.pc = "returned" =>
           (StepwiseTurnDone /\ Truthy(r.is_final_step))

\* second turn, two calls: 5 * 2 = 10, then the final 5 + 10 = 15
C1_Witness ==
  /\ stepwise.pc = "returned"
  /\ stepwise.llm_calls = 2
  /\ Len(stepwise.response) = 2
  /\ stepwise.result.results[1][1] = PyInt(10)
  /\ stepwise.final_result = PyInt(15)

\* C2: when max_llm_calls turns of the Stepwise run have been made and
\* none was final, the run fails with MaxCallsExceeded, without a value
\* and without another model call; a final step on turn max_llm_calls
\* still returns.
C2_StepwiseBudgetExhausted ==
  LET r == stepwise.result
  IN  /\ (/\ StepwiseTurnDone
          /\ ~Truthy(r.is_final_step)
          /\ stepwise.llm_calls >= config.max_llm_calls) =>
           /\ stepwise.pc = "raised"
           /\ stepwise.error = "MaxCallsExceeded"
           /\ stepwise.final_result = None
           /\ \A k \in 1..Len(stepwise.output) :
                stepwise.output[k].line \in {"Input expression", LineBegin.line,
                                             "Step"}
           /\ ~StepwiseCallsModel
      /\ (/\ StepwiseTurnDone
          /\ Truthy(r.is_final_step)
          /\ stepwise.llm_calls = config.max_llm_calls) =>
           stepwise.pc = "returned"
      /\ stepwise.error = "MaxCallsExceeded" =>
           /\ StepwiseTurnDone
           /\ ~Truthy(r.is_final_step)
           /\ stepwise.llm_calls >= config.max_llm_calls
           /\ config.max_llm_calls >= 1 =>
                stepwise.llm_calls = config.max_llm_calls

\* two turns without a final step under a budget of two
C2_Witness ==
  /\ config.max_llm_calls = 2
  /\ stepwise.llm_calls = 2
  /\ stepwise.pc = "raised"
  /\ stepwise.error = "MaxCallsExceeded"

OneOperatorBetweenNumbers(e) ==
  /\ OperatorCount(e) = 1
  /\ LET op == CHOOSE o \in {"+", "-", "*", "/"} : Contains(e, o)
     IN  /\ ~IsRaised(float(Strip(SplitOnce(e, op)[1])))
         /\ ~IsRaised(float(Strip(SplitOnce(e, op)[2])))

\* C4: the seen-set holds the original expression and the expression left
\* by every earlier turn; when the expression a turn leaves is in it and
\* has exactly one operator with a number on each side, the run returns
\* in that turn with the value computed from the expression (no value for
\* a division by zero), and no model call follows the return.
C4_LoopFallbackReturnsAtOnce ==
  [][LET r == reducing'.result
         e == reducing'.result.remaining_expression
         value == eval(reducing'.result.remaining_expression)
     IN  /\ (reducing.pc = "idle" /\ reducing'.pc = "await_model") =>
              reducing'.previous_expressions = {reducing'.input}
         /\ (reducing.pc = "await_model" /\ reducing'.pc = "await_model") =>
              reducing'.previous_expressions
                = reducing.previous_expressions \cup {e}
         /\ (/\ reducing.pc = "await_model"
             /\ reducing'.llm_calls = reducing.llm_calls + 1
             /\ r.raised = None
             /\ e \in reducing.previous_expressions
             /\ OneOperatorBetweenNumbers(e)) =>
              /\ reducing'.pc = "returned"
              /\ reducing'.via = "loop_fallback"
              /\ IsNumber(value) =>
                   /\ IsNumber(reducing'.final_result)
                   /\ PyEq(reducing'.final_result, value)
              /\ value = Raised("ZeroDivisionError") =>
                   reducing'.final_result = None
         /\ reducing.pc = "returned" => reducing' = reducing
    ]_vars

\* "5 + 5" left as it is by the first turn: 10 is returned in that turn
C4_Witness ==
  /\ reducing.input = ExprLoop
  /\ reducing.expression = ExprLoop
  /\ reducing.llm_calls = 1
  /\ reducing.pc = "returned"
  /\ reducing.via = "loop_fallback"
  /\ reducing.final_result = PyFloat(10, 1)

\* the characters of the validated grammar: 0-9, whitespace, + - * / ( ) .
GrammarChars ==
  AsciiDigits \cup {" ", "\t", "+", "-", "*", "/", "(", ")", "."}

InGrammar(e) == \A k \in 1..Len(e) : e[k] \in GrammarChars

\* C6: in both agents an expression that is too long or holds a character
\* outside the grammar makes run fail with InvalidInput (ExpressionTooLong
\* or InvalidCharacters) before any model call: the run makes no model
\* call.
C6_InvalidInputBeforeAnyModelCall ==
  /\ (/\ stepwise.pc # "idle"
      /\ \/ Len(stepwise.expression) > config.max_expression_length
         \/ ~InGrammar(stepwise.expression)) =>
       /\ stepwise.pc = "raised"
       /\ stepwise.error \in {"ExpressionTooLong", "InvalidCharacters"}
       /\ stepwise.llm_calls = 0
       /\ ~StepwiseCallsModel
  /\ (/\ reducing.pc # "idle"
      /\ \/ Len(reducing.input) > config.max_expression_length
         \/ ~InGrammar(reducing.input)) =>
       /\ reducing.pc = "raised"
       /\ reducing.error \in {"ExpressionTooLong", "InvalidCharacters"}
       /\ reducing.llm_calls = 0
       /\ ~ReducingCallsModel

\* ------------------------------------------------------------------------
\* Properties of the two agents on the same turns (under SpecBoth)
\* ------------------------------------------------------------------------
\* C5 as stated: on the same expression and the same model turns, the
\* Stepwise and the Reducing agent return the same final result.
C5_SameFinalResult ==
  (stepwise.pc = "returned" /\ reducing.pc = "returned") =>
    PyEq(stepwise.final_result, reducing.final_result)

\* C5, amended: on the same expression, the same model turns and the same
\* budget, a Reducing run that returns by its final-step path returns at
\* the turn at which the Stepwise run returns, with the same final result;
\* only a return of the Reducing run by one of its fallbacks can differ.
C5_SameFinalResultOnFinalStep ==
  /\ (reducing.pc = "returned" /\ reducing.via = "final_step") =>
       /\ stepwise.pc = "returned"
       /\ stepwise.llm_calls = reducing.llm_calls
       /\ PyEq(stepwise.final_result, reducing.final_result)
  /\ (stepwise.pc = "returned" /\ reducing.pc = "returned"
        /\ ~PyEq(stepwise.final_result, reducing.final_result)) =>
       reducing.via \in {"loop_fallback", "direct_evaluation"}

\* the round trip: "10 + 5 * 3 - 8 / 2" with the calls 5 * 3, 8 / 2,
\* 10 + 15 and the final 25 - 4 returns 21 under both strategies
C5_Witness ==
  /\ stepwise.expression = ExprRoundTrip
  /\ stepwise.steps = <<<<"5", " ", "*", " ", "3", " ", "=", " ", "1", "5">>,
                        <<"8", " ", "/", " ", "2", " ", "=", " ", "4", ".", "0">>,
                        <<"1", "0", " ", "+", " ", "1", "5", " ", "=", " ", "2", "5">>>>
  /\ stepwise.pc = "returned"
  /\ reducing.pc = "returned"
  /\ reducing.via = "final_step"
  /\ reducing.expression = <<"2", "1">>
  /\ stepwise.final_result = PyInt(21)
  /\ reducing.final_result = PyInt(21)

\* ------------------------------------------------------------------------
\* Properties of validate_expression (under SpecValidate)
\* ------------------------------------------------------------------------
\* C7: validate_expression(e, max) returns true exactly when e is
\* non-empty, len(e) <= max and every character of e is one of 0-9,
\* whitespace, + - * / ( ) and the point; it fails with ExpressionTooLong
\* when len(e) > max and with InvalidCharacters when e is within the
\* length and holds a character outside that set.  Nothing else of e
\* (balance of parentheses, placement of operators) is looked at.
C7_ValidateExactlyTheGrammar ==
  call.f = "validate_expression" =>
    LET e == call.expression
        max == call.max_expression_length
    IN  /\ (call.outcome = PyBool(TRUE))
             <=> (Len(e) >= 1 /\ Len(e) <= max /\ InGrammar(e))
        /\ Len(e) > max => call.outcome = Raised("ExpressionTooLong")
        /\ (Len(e) <= max /\ ~InGrammar(e))
             => call.outcome = Raised("InvalidCharacters")

\* ------------------------------------------------------------------------
\* Properties of _process_tool_calls (under SpecInterp)
\* ------------------------------------------------------------------------
\* call k of the turn is reached: the calls before it left their results
Reached(k) == Len(call.result.results) >= k - 1

\* the first try fails on the payload and, with "op:" replaced by "op" in
\* its text, the payload still lacks a member, or has an op that is no
\* str or is none of + - * /
StillInvalid(arguments) ==
  /\ ~parse_arguments_try(arguments).ok
  /\ \/ ~arguments.json
     \/ LET d == JsonLoads(ReplaceOpColon(arguments.kv))
        IN  \/ ~HasAllKeys(d)
            \/ d[KeyOp].t # "str"
            \/ d[KeyOp].s \notin Ops

\* C8: a tool call whose payload, after the one repair pass, still has a
\* missing key, an op that is no string or an op outside + - * / makes the
\* turn fail with MalformedArguments: calculate is not called for it and
\* no result or step is recorded for it.
C8_InvalidPayloadIsMalformed ==
  call.f = "_process_tool_calls" =>
    \A k \in 1..Len(call.tool_calls) :
      (Reached(k) /\ StillInvalid(call.tool_calls[k].arguments)) =>
        /\ call.result.raised = Raised("MalformedArguments")
        /\ Len(call.result.calculated) = k - 1
        /\ Len(call.result.results) = k - 1
        /\ Len(call.result.call_steps) = k - 1

\* a payload {"a": .., "b": .., "op:": op, "is_final_step": ..} with op
\* one of + - * /
IsOpColonPayload(arguments) ==
  /\ arguments.json
  /\ [j \in 1..Len(arguments.kv) |-> arguments.kv[j][1]]
       = <<KeyA, KeyB, KeyOpColon, KeyFinal>>
  /\ arguments.kv[3][2].t = "str"
  /\ arguments.kv[3][2].s \in Ops

\* the same payload with the key spelled "op"
CorrectlyKeyed(arguments) == [arguments EXCEPT !.kv[3][1] = KeyOp]

\* the turn with every "op:" payload spelled correctly
CorrectlyKeyedTurn(tool_calls) ==
  [j \in 1..Len(tool_calls) |->
     IF IsOpColonPayload(tool_calls[j].arguments)
     THEN [tool_calls[j] EXCEPT !.arguments = CorrectlyKeyed(@)]
     ELSE tool_calls[j]]

\* C9: a payload that spells the operator key "op:" instead of "op" is
\* repaired silently: the turn has the same outcome (results, step
\* records, is_final_step, reduced expression) as with the key spelled
\* "op", and the call is not refused: its result, the one calculate
\* gives for a, b and op, is recorded.
C9_OpColonRepaired ==
  call.f = "_process_tool_calls" =>
    /\ call.result =
         IF call.agent = "stepwise"
         THEN Stepwise_process_tool_calls(CorrectlyKeyedTurn(call.tool_calls))
         ELSE Reducing_process_tool_calls(CorrectlyKeyedTurn(call.tool_calls),
                                          ExprInterp)
    /\ \A k \in 1..Len(call.tool_calls) :
         (Reached(k) /\ IsOpColonPayload(call.tool_calls[k].arguments)) =>
           /\ Len(call.result.results) >= k
           /\ call.result.results[k][1]
                = calculate(call.tool_calls[k].arguments.kv[1][2],
                            call.tool_calls[k].arguments.kv[2][2],
                            call.tool_calls[k].arguments.kv[3][2])

\* {"a":1,"b":2,"op:":"+","is_final_step":true} yields 3 and ends the run
C9_Witness ==
  /\ call.f = "_process_tool_calls"
  /\ call.tool_calls = ToolCalls(<<CallOpColon(1, 2, <<"+">>, TRUE)>>)
  /\ call.result.raised = None
  /\ call.result.results = <<<<PyInt(3), 1>>>>
  /\ call.result.call_steps = <<<<"1", " ", "+", " ", "2", " ", "=", " ", "3">>>>
  /\ call.result.is_final_step = PyBool(TRUE)

\* C10: the is_final_step of a turn's ToolCallResult is the is_final_step
\* of the last tool call processed in the turn, not the logical OR over
\* the calls of the turn.
C10_LastCallDecidesFinalStep ==
  (/\ call.f = "_process_tool_calls"
   /\ call.result.raised = None
   /\ call.tool_calls # <<>>) =>
    call.result.is_final_step
      = JsonLoads(call.tool_calls[Len(call.tool_calls)].arguments.kv)[KeyFinal]

\* a turn whose first call signals the final step and whose last does not
C10_Witness ==
  /\ call.f = "_process_tool_calls"
  /\ call.tool_calls = ToolCalls(<<Call(1, 2, <<"+">>, TRUE),
                                   Call(1, 2, <<"*">>, FALSE)>>)
  /\ call.result.raised = None
  /\ call.result.is_final_step = PyBool(FALSE)

\* ------------------------------------------------------------------------
\* Properties of the turns of a run (under Spec)
\* ------------------------------------------------------------------------
\* the is_final_step member of the arguments of a tool call
SignalsFinalStep(tool_call) ==
  Truthy(JsonLoads(tool_call.arguments.kv)[KeyFinal])

\* C11 as stated: the is_final_step of a turn is true if any tool call of
\* the turn signalled completion, so that a turn with an earlier final
\* call and a last call that is not final still ends the run.
C11_AnyFinalCallEndsRun ==
  /\ (StepwiseTurnDone
        /\ \E k \in 1..Len(stepwise.response) :
             SignalsFinalStep(stepwise.response[k])) =>
       /\ Truthy(stepwise.result.is_final_step)
       /\ stepwise.pc = "returned"
  /\ (ReducingTurnDone
        /\ \E k \in 1..Len(reducing.response) :
             SignalsFinalStep(reducing.response[k])) =>
       /\ Truthy(reducing.result.is_final_step)
       /\ reducing.pc = "returned"

\* C11, amended: the is_final_step of a turn is that of the last tool
\* call of the turn.  The Stepwise run returns in a turn exactly when the
\* last call of the turn signals the final step; the Reducing run returns
\* in every such turn and takes its final-step return only in such a
\* turn.  A turn with an earlier final call and a last call that is not
\* final does not end the run by a final step.
C11_OnlyLastCallEndsRun ==
  /\ StepwiseTurnDone =>
       LET last == stepwise.response[Len(stepwise.response)]
       IN  /\ Truthy(stepwise.result.is_final_step) <=> SignalsFinalStep(last)
           /\ stepwise.pc = "returned" <=> SignalsFinalStep(last)
  /\ ReducingTurnDone =>
       LET last == reducing.response[Len(reducing.response)]
       IN  /\ Truthy(reducing.result.is_final_step) <=> SignalsFinalStep(last)
           /\ SignalsFinalStep(last) => reducing.pc = "returned"
           /\ reducing.via = "final_step" => SignalsFinalStep(last)

\* the first turn holds the final 5 + 10 and then 5 * 2, not final: the
\* Stepwise run goes on to the next call of the model
C11_Witness ==
  /\ stepwise.llm_calls = 1
  /\ stepwise.response = ToolCalls(<<Call(5, 10, <<"+">>, TRUE),
                                     Call(5, 2, <<"*">>, FALSE)>>)
  /\ stepwise.result.raised = None
  /\ stepwise.result.is_final_step = PyBool(FALSE)
  /\ stepwise.pc = "await_model"
  /\ stepwise.i = 2

\* C12: in both agents a model turn that returns no tool call makes the
\* run fail with NoToolCall: no value is returned, no step is recorded or
\* printed for the turn, and no model call follows.
C12_NoToolCallFailsRun ==
  [][/\ (/\ stepwise.pc = "await_model"
         /\ stepwise'.llm_calls = stepwise.llm_calls + 1
         /\ stepwise'.response = <<>>) =>
          /\ stepwise'.pc = "raised"
          /\ stepwise'.error = "NoToolCall"
          /\ stepwise'.final_result = None
          /\ stepwise'.steps = stepwise.steps
          /\ stepwise'.output = stepwise.output
     /\ (/\ reducing.pc = "await_model"
         /\ reducing'.llm_calls = reducing.llm_calls + 1
         /\ reducing'.response = <<>>) =>
          /\ reducing'.pc = "raised"
          /\ reducing'.error = "NoToolCall"
          /\ reducing'.final_result = None
          /\ reducing'.steps = reducing.steps
          /\ reducing'.expression = reducing.expression
          /\ reducing'.output = reducing.output
     /\ stepwise.error = "NoToolCall" => stepwise' = stepwise
     /\ reducing.error = "NoToolCall" => reducing' = reducing
    ]_vars

\* the second turn of a Stepwise run comes without a tool call
C12_Witness ==
  /\ stepwise.pc = "raised"
  /\ stepwise.error = "NoToolCall"
  /\ stepwise.llm_calls = 2
  /\ stepwise.response = <<>>
  /\ Len(stepwise.steps) = 1
  /\ stepwise.final_result = None

\* ------------------------------------------------------------------------
\* Runs whose turns hold tool calls that fail (SpecAbort)
\* ------------------------------------------------------------------------
\* the argument texts the model answers with: a valid call, a division by
\* zero, an op outside + - * / and a payload without the member "op"
AbortMenu ==
  {Call(5, 5, <<"+">>, FALSE), Call(5, 0, <<"/">>, FALSE),
   Call(5, 2, <<"^">>, FALSE),
   Args(<<<<KeyA, PyInt(5)>>, <<KeyB, PyInt(2)>>,
          <<KeyFinal, PyBool(FALSE)>>>>)}

NextAbort ==
  \/ StepwiseRun(ExprTwoStep)
  \/ \E tc \in Responses(AbortMenu, MaxCallsPerTurn) : StepwiseReply(tc)
  \/ ReducingRun(ExprTwoStep)
  \/ \E tc \in Responses(AbortMenu, MaxCallsPerTurn) : ReducingReply(tc)

SpecAbort == Init /\ [][NextAbort]_vars

\* the errors of a tool call
CallErrors ==
  {Raised("MalformedArguments"), Raised("UnsupportedOperation"),
   Raised("DivisionByZero")}

\* the tool call fails when it is processed: its arguments are malformed
\* or calculate raises on them
CallFails(tool_call) ==
  LET args == parse_arguments(tool_call.arguments)
  IN  ~args.ok \/ IsRaised(calculate(args.a, args.b, args.op))

\* C13: in both agents, once a turn fails with MalformedArguments,
\* UnsupportedOperation or DivisionByZero the run aborts in that turn: the
\* error of the first failing call is the error of the run, no value is
\* returned, no call of the turn is processed after the failing one, and
\* no model call follows, also when earlier calls of the turn were valid.
C13_TurnErrorAbortsRun ==
  /\ (stepwise.llm_calls >= 1
        /\ \E k \in 1..Len(stepwise.response) : CallFails(stepwise.response[k])) =>
       LET k == CHOOSE j \in 1..Len(stepwise.response) :
                  /\ CallFails(stepwise.response[j])
                  /\ \A m \in 1..(j - 1) : ~CallFails(stepwise.response[m])
       IN  /\ stepwise.result.raised \in CallErrors
           /\ stepwise.pc = "raised"
           /\ stepwise.error = stepwise.result.raised.e
           /\ stepwise.final_result = None
           /\ Len(stepwise.result.results) = k - 1
           /\ Len(stepwise.result.calculated) <= k
           /\ ~StepwiseCallsModel
  /\ (reducing.llm_calls >= 1
        /\ \E k \in 1..Len(reducing.response) : CallFails(reducing.response[k])) =>
       LET k == CHOOSE j \in 1..Len(reducing.response) :
                  /\ CallFails(reducing.response[j])
                  /\ \A m \in 1..(j - 1) : ~CallFails(reducing.response[m])
       IN  /\ reducing.result.raised \in CallErrors
           /\ reducing.pc = "raised"
           /\ reducing.error = reducing.result.raised.e
           /\ reducing.final_result = None
           /\ Len(reducing.result.results) = k - 1
           /\ Len(reducing.result.calculated) <= k
           /\ ~ReducingCallsModel
  /\ stepwise.error \in {e.e : e \in CallErrors} =>
       \E k \in 1..Len(stepwise.response) : CallFails(stepwise.response[k])
  /\ reducing.error \in {e.e : e \in CallErrors} =>
       \E k \in 1..Len(reducing.response) : CallFails(reducing.response[k])

\* the second turn of a Reducing run holds the valid 5 + 5 and then 5 / 0
C13_Witness ==
  /\ reducing.pc = "raised"
  /\ reducing.error = "DivisionByZero"
  /\ reducing.llm_calls = 2
  /\ reducing.response = ToolCalls(<<Call(5, 5, <<"+">>, FALSE),
                                     Call(5, 0, <<"/">>, FALSE)>>)
  /\ Len(reducing.result.results) = 1
  /\ reducing.final_result = None

\* ------------------------------------------------------------------------
\* calculate applied on its own (SpecCalculate)
\* ------------------------------------------------------------------------
\* the operands: the integers and the halves up to MaxOperand, as int
\* and as float (0, 0.0, 0.5, 1, 1.0, 1.5, ...)
Operands ==
  {PyInt(n) : n \in (-MaxOperand)..MaxOperand}
    \cup {PyFloat(n, 2) : n \in (-2 * MaxOperand)..(2 * MaxOperand)}

\* the values of op: the four symbols, bare and padded with whitespace,
\* and texts that are none of them
CalcOps ==
  {PyStr(o) : o \in Ops}
    \cup {PyStr(<<" ">> \o o \o <<" ">>) : o \in Ops}
    \cup {PyStr(<<" ", "/">>), PyStr(<<"*", "\t", " ">>),
          PyStr(<<"^">>), PyStr(<<>>), PyStr(<<" ">>), PyStr(<<"*", "*">>),
          PyStr(<<"+", " ", "+">>), PyStr(<<" ", "%", " ">>),
          PyStr(<<"x">>)}

InitCalculate ==
  /\ config \in [max_expression_length : {MaxExpressionLength}]
  /\ stepwise = StepwiseIdle
  /\ reducing = ReducingIdle
  /\ call = NoCall
  /\ orchestrator = NoOrchestrator

\* calculate(a, b, op)
Calculate(a, b, op) ==
  /\ call = NoCall
  /\ call' = [f |-> "calculate", done |-> TRUE, a |-> a, b |-> b, op |-> op,
              outcome |-> calculate(a, b, op)]
  /\ UNCHANGED <<config, stepwise, reducing, orchestrator>>

NextCalculate ==
  \E a \in Operands, b \in Operands, op \in CalcOps : Calculate(a, b, op)

SpecCalculate == InitCalculate /\ [][NextCalculate]_vars

\* r is the number n/d, for d # 0
IsQuotient(r, n, d) == IsNumber(r) /\ r.n * d = n * r.d

\* C14: calculate(a, b, "/") fails with DivisionByZero exactly when
\* b == 0; for + - * on any operands, and for / with a divisor that is
\* not zero, calculate(a, b, op) is the sum, difference, product or
\* quotient of a and b, and for + - * on two integers it is an integer.
C14_CalculateIsArithmetic ==
  call.f = "calculate" =>
    LET a == call.a
        b == call.b
        r == call.outcome
        ints == a.t = "int" /\ b.t = "int"
    IN  /\ (r = Raised("DivisionByZero"))
             <=> (Strip(call.op.s) = <<"/">> /\ b.n = 0)
        /\ call.op.s = <<"+">> =>
             /\ IsQuotient(r, a.n * b.d + b.n * a.d, a.d * b.d)
             /\ ints => (r.t = "int" /\ r.d = 1)
        /\ call.op.s = <<"-">> =>
             /\ IsQuotient(r, a.n * b.d - b.n * a.d, a.d * b.d)
             /\ ints => (r.t = "int" /\ r.d = 1)
        /\ call.op.s = <<"*">> =>
             /\ IsQuotient(r, a.n * b.n, a.d * b.d)
             /\ ints => (r.t = "int" /\ r.d = 1)
        /\ (call.op.s = <<"/">> /\ b.n # 0) =>
             IsQuotient(r, a.n * b.d, a.d * b.n)

\* 3 / 2 is 1.5
C14_Witness ==
  /\ call.f = "calculate"
  /\ call.a = PyInt(3)
  /\ call.b = PyInt(2)
  /\ call.op = PyStr(<<"/">>)
  /\ call.outcome = [t |-> "float", n |-> 3, d |-> 2]

\* the text s is the symbol o with whitespace before and after it
IsPadded(s, o) ==
  \E k \in 1..Len(s) :
    /\ k + Len(o) - 1 <= Len(s)
    /\ SubSeq(s, k, k + Len(o) - 1) = o
    /\ \A j \in 1..Len(s) :
         (j < k \/ j > k + Len(o) - 1) => s[j] \in {" ", "\t"}

\* C15: calculate trims the whitespace around op before it dispatches: an
\* op with spaces before or after the symbol gives what the bare symbol
\* gives, and an op that, trimmed, is none of + - * / fails with
\* UnsupportedOperation, with no value computed.
C15_OpIsTrimmed ==
  call.f = "calculate" =>
    /\ \A o \in Ops :
         IsPadded(call.op.s, o) =>
           call.outcome = calculate(call.a, call.b, PyStr(o))
    /\ (\A o \in Ops : ~IsPadded(call.op.s, o)) =>
         call.outcome = Raised("UnsupportedOperation")
    /\ call.outcome = Raised("UnsupportedOperation") =>
         \A o \in Ops : ~IsPadded(call.op.s, o)

\* calculate(1, 2, " + ") is 3
C15_Witness ==
  /\ call.f = "calculate"
  /\ call.a = PyInt(1)
  /\ call.b = PyInt(2)
  /\ call.op = PyStr(<<" ", "+", " ">>)
  /\ call.outcome = PyInt(3)

\* ------------------------------------------------------------------------
\* Properties of the printed lines (under Spec)
\* ------------------------------------------------------------------------
\* the positions of the lines of a kind in the output of a run
LinesOf(output, line) == {k \in 1..Len(output) : output[k].line = line}

\* BEGIN is printed once and END once, after it, as the last line
Bracketed(output) ==
  /\ Cardinality(LinesOf(output, LineBegin.line)) = 1
  /\ LinesOf(output, LineEnd.line) = {Len(output)}
  /\ \A k \in LinesOf(output, LineBegin.line) : k < Len(output)

\* C16: in every run of either agent the BEGIN line is followed, when the
\* run is over, by exactly one END line, whether the run returned a value
\* or ended in an error.
C16_StepsAreBracketed ==
  /\ stepwise.pc \in {"returned", "raised"} => Bracketed(stepwise.output)
  /\ reducing.pc \in {"returned", "raised"} => Bracketed(reducing.output)

\* the output holds one "Final result" line: it carries the value, every
\* "Step" line comes before it and the END line after it
OneFinalLine(output, value) ==
  /\ Cardinality(LinesOf(output, "Final result")) = 1
  /\ LinesOf(output, LineEnd.line) # {}
  /\ \A k \in LinesOf(output, "Final result") :
       /\ output[k].value = value
       /\ \A s \in LinesOf(output, "Step") : s < k
       /\ \A e \in LinesOf(output, LineEnd.line) : k < e

\* C17: a run of either agent that returns a value prints exactly one
\* "Final result" line, after every "Step" line and before the END line,
\* with the value run returns: on the final-step return, on the return of
\* the loop check and on the return of the direct evaluation; a run that
\* has not returned has printed no such line.
C17_OneFinalResultLine ==
  /\ stepwise.pc = "returned" =>
       OneFinalLine(stepwise.output, stepwise.final_result)
  /\ stepwise.pc # "returned" =>
       LinesOf(stepwise.output, "Final result") = {}
  /\ reducing.pc = "returned" =>
       /\ reducing.via \in {"final_step", "loop_fallback", "direct_evaluation"}
       /\ OneFinalLine(reducing.output, reducing.final_result)
  /\ reducing.pc # "returned" =>
       LinesOf(reducing.output, "Final result") = {}

\* "5 + 5 * 2" reduced to "10 * 2" when the budget of one call is spent:
\* Step 1, the direct evaluation, "Final result: 20" and END
C17_Witness ==
  /\ reducing.pc = "returned"
  /\ reducing.via = "direct_evaluation"
  /\ reducing.final_result = PyInt(20)
  /\ Len(reducing.output) = 6
  /\ reducing.output[3].line = "Step"
  /\ reducing.output[5] = LineFinal(PyInt(20))
  /\ reducing.output[6] = LineEnd

\* the "Step" lines of an output, in the order printed
RECURSIVE StepLines(_)
StepLines(output) ==
  IF output = <<>> THEN <<>>
  ELSE IF output[Len(output)].line = "Step"
  THEN Append(StepLines(SubSeq(output, 1, Len(output) - 1)),
              output[Len(output)])
  ELSE StepLines(SubSeq(output, 1, Len(output) - 1))

\* the rendered steps of all the tool calls the Stepwise run processed
\* (run adds those of a final turn to no list)
StepwiseSolvedSteps ==
  IF StepwiseTurnDone /\ Truthy(stepwise.result.is_final_step)
  THEN stepwise.steps \o stepwise.result.call_steps
  ELSE stepwise.steps

\* the rendered steps of all the tool calls the Reducing run processed
ReducingSolvedSteps ==
  IF ReducingTurnDone /\ reducing.via \in {"final_step", "loop_fallback"}
  THEN reducing.steps \o reducing.result.call_steps
  ELSE reducing.steps

\* C18 as stated: each solved step, that is each processed tool call, is
\* printed as a line "Step N: <rendered-step>" of its own, N numbering
\* the solved steps from 1; in the Reducing run the line ends with the
\* remaining expression.
C18_EachStepOwnLine ==
  /\ LET lines == StepLines(stepwise.output)
     IN  /\ Len(lines) = Len(StepwiseSolvedSteps)
         /\ \A k \in 1..Len(lines) :
              lines[k].n = k /\ lines[k].text = StepwiseSolvedSteps[k]
  /\ LET lines == StepLines(reducing.output)
     IN  /\ Len(lines) = Len(ReducingSolvedSteps)
         /\ \A k \in 1..Len(lines) :
              lines[k].n = k /\ lines[k].text = ReducingSolvedSteps[k]

\* C18, amended: each model turn that was processed without an error is
\* printed as one line "Step N: ...", N numbering the turns from 1, with
\* the rendered steps of the tool calls of the turn joined by
\* "    ,   "; a turn of one tool call gives a line with that one step.
\* In the Reducing run the line ends with the expression left by the
\* turn.  A turn that fails prints no line.
C18_EachTurnOneLine ==
  /\ LET lines == StepLines(stepwise.output)
         r == stepwise.result
     IN  /\ \A k \in 1..Len(lines) : lines[k].n = k
         /\ StepwiseTurnDone =>
              /\ Len(lines) = stepwise.llm_calls
              /\ lines[Len(lines)]
                   = [line |-> "Step", n |-> stepwise.llm_calls,
                      text |-> Join(<<" ", " ", " ", " ", ",", " ", " ", " ">>,
                                    r.call_steps)]
              /\ Len(r.call_steps) = Len(stepwise.response)
              /\ Len(stepwise.response) = 1 =>
                   lines[Len(lines)].text = r.call_steps[1]
         /\ ~StepwiseTurnDone =>
              Len(lines) = IF stepwise.llm_calls = 0 THEN 0
                           ELSE stepwise.llm_calls - 1
  /\ LET lines == StepLines(reducing.output)
         r == reducing.result
     IN  /\ \A k \in 1..Len(lines) : lines[k].n = k
         /\ ReducingTurnDone =>
              /\ Len(lines) = reducing.llm_calls
              /\ lines[Len(lines)]
                   = [line |-> "Step", n |-> reducing.llm_calls,
                      text |-> Join(<<" ", " ", " ", " ", ",", " ", " ", " ">>,
                                    r.call_steps),
                      remaining |-> reducing.expression]
              /\ reducing.expression = r.remaining_expression
              /\ Len(r.call_steps) = Len(reducing.response)
              /\ Len(reducing.response) = 1 =>
                   lines[Len(lines)].text = r.call_steps[1]
         /\ ~ReducingTurnDone =>
              Len(lines) = IF reducing.llm_calls = 0 THEN 0
                           ELSE reducing.llm_calls - 1

\* a turn of two calls printed as the one line
\* "Step 1: 5 * 2 = 10    ,   5 + 10 = 15"
C18_Witness ==
  /\ stepwise.llm_calls = 1
  /\ Len(stepwise.response) = 2
  /\ StepLines(stepwise.output)
       = << [line |-> "Step", n |-> 1,
             text |-> <<"5", " ", "*", " ", "2", " ", "=", " ", "1", "0",
                        " ", " ", " ", " ", ",", " ", " ", " ",
                        "5", " ", "+", " ", "1", "0", " ", "=", " ", "1", "5">>] >>

\* ------------------------------------------------------------------------
\* CalculatorOrchestrator (src/src/orchestrator.py)
\* ------------------------------------------------------------------------
UpperLetters ==
  <<"A", "B", "C", "D", "E", "F", "G", "H", "I", "J", "K", "L", "M",
    "N", "O", "P", "Q", "R", "S", "T", "U", "V", "W", "X", "Y", "Z">>
LowerLetters ==
  <<"a", "b", "c", "d", "e", "f", "g", "h", "i", "j", "k", "l", "m",
    "n", "o", "p", "q", "r", "s", "t", "u", "v", "w", "x", "y", "z">>

\* str.lower() (on texts of ASCII characters)
Lower(s) ==
  [k \in 1..Len(s) |->
     IF \E j \in 1..Len(UpperLetters) : UpperLetters[j] = s[k]
     THEN LowerLetters[CHOOSE j \in 1..Len(UpperLetters) : UpperLetters[j] = s[k]]
     ELSE s[k]]

\* "stepwise" and "reducing", the keys of AGENT_TYPES
StepwiseName == <<"s", "t", "e", "p", "w", "i", "s", "e">>
ReducingName == <<"r", "e", "d", "u", "c", "i", "n", "g">>

AGENT_TYPES ==
  [t \in {StepwiseName, ReducingName} |->
     IF t = StepwiseName THEN "StepwiseCalculatorAgent"
     ELSE "ReducingCalculatorAgent"]

\* f"config/{agent_type}_agent_config.yaml"
ConfigPath(agent_type) ==
  [path |-> "config/{agent_type}_agent_config.yaml",
   agent_type |-> agent_type]

\* the configuration files the repository is run with: the one of the
\* Stepwise agent and the one of the Reducing agent
StepwiseFileConfig ==
  [max_expression_length |-> MaxExpressionLength, max_llm_calls |-> 1,
   system_prompt |-> "stepwise: system_prompt",
   initial_prompt |-> "stepwise: initial_prompt",
   subsequent_prompt |-> "stepwise: subsequent_prompt",
   return_tool_call_msgs |-> TRUE, append_messages |-> TRUE]
ReducingFileConfig ==
  [max_expression_length |-> MaxExpressionLength, max_llm_calls |-> 1,
   system_prompt |-> "reducing: system_prompt",
   prompt |-> "reducing: prompt"]

\* yaml.safe_load of the file at the path
ConfigFile(path) ==
  IF path = ConfigPath(StepwiseName) THEN StepwiseFileConfig
  ELSE ReducingFileConfig

\* the keys StepwiseCalculatorAgent.__init__ reads
StepwiseAgentKeys ==
  {"max_expression_length", "system_prompt", "subsequent_prompt",
   "initial_prompt", "max_llm_calls", "return_tool_call_msgs",
   "append_messages"}

\* the keys ReducingCalculatorAgent.__init__ reads
ReducingAgentKeys ==
  {"max_expression_length", "system_prompt", "prompt", "max_llm_calls"}

\* required_keys of _ensure_agent_config
required_keys(agent_type) ==
  IF agent_type = StepwiseName
  THEN {"system_prompt", "initial_prompt", "subsequent_prompt",
        "max_llm_calls", "max_expression_length"}
  ELSE {"system_prompt", "prompt", "max_llm_calls", "max_expression_length"}

\* an exception in place of a configuration or of an agent
Failed(v) == "t" \in DOMAIN v /\ v.t = "raised"

\* the agent built as a StepwiseCalculatorAgent whatever class is registered
NewAgent_stepwise(class, agent_config) ==
  IF StepwiseAgentKeys \subseteq DOMAIN agent_config
  THEN [class |-> "StepwiseCalculatorAgent",
        config |-> [k \in StepwiseAgentKeys |-> agent_config[k]]]
  ELSE Raised("KeyError")

\* agent_class(self.llm_client, self.config): the fields the constructor
\* reads from the configuration, KeyError when one is missing
NewAgent(class, agent_config) ==
  LET keys == IF class = "StepwiseCalculatorAgent" THEN StepwiseAgentKeys
              ELSE ReducingAgentKeys
  IN  IF keys \subseteq DOMAIN agent_config
      THEN [class |-> class, config |-> [k \in keys |-> agent_config[k]]]
      ELSE Raised("KeyError")

\* _load_config
Orchestrator_load_config(files, config_path) ==
  IF config_path \in files THEN ConfigFile(config_path)
  ELSE Raised("FileNotFoundError")

\* _create_llm_client: the two keys it writes into self.config (an API
\* key is taken to be found, as it was when the orchestrator was built)
Orchestrator_create_llm_client(agent_config) ==
  [k \in DOMAIN agent_config \cup {"tool_call_required", "api_key"} |->
     IF k = "tool_call_required" THEN "required"
     ELSE IF k = "api_key" THEN "api_key"
     ELSE agent_config[k]]

\* _ensure_agent_config(self.agent_type): self.config afterwards
Orchestrator_ensure_agent_config(files, agent_config, agent_type) ==
  IF required_keys(agent_type) \subseteq DOMAIN agent_config
  THEN agent_config
  ELSE IF ConfigPath(agent_type) \notin files THEN agent_config
  ELSE LET file == ConfigFile(ConfigPath(agent_type))
       IN  [k \in DOMAIN agent_config \cup DOMAIN file |->
              IF k \in DOMAIN file
                   /\ (k \notin DOMAIN agent_config
                         \/ k \in required_keys(agent_type))
              THEN file[k] ELSE agent_config[k]]

\* the tail of __init__ and of change_agent: self.agent = self._create_agent()
\* on the orchestrator o whose self.config is agent_config
Orchestrator_set_agent(o, agent_config, agent) ==
  IF Failed(agent)
  THEN [o |-> [o EXCEPT !.config = agent_config], outcome |-> agent]
  ELSE [o |-> [o EXCEPT !.config = agent_config, !.agent = agent],
        outcome |-> None]

\* _create_agent
Orchestrator_create_agent(o, agent_config) ==
  Orchestrator_set_agent(o, agent_config,
                         NewAgent(AGENT_TYPES[o.agent_type], agent_config))

\* change_agent from the check of the agent type on; loaded is the
\* configuration read from config_path, when one is given
Orchestrator_change_agent_to(o, config_path, loaded) ==
  IF o.agent_type \notin DOMAIN AGENT_TYPES
  THEN [o |-> o, outcome |-> Raised("ValueError")]
  ELSE IF config_path = None
  THEN Orchestrator_create_agent(o,
         Orchestrator_ensure_agent_config(o.files, o.config, o.agent_type))
  ELSE IF Failed(loaded) THEN [o |-> o, outcome |-> loaded]
  ELSE Orchestrator_create_agent(o,
         Orchestrator_ensure_agent_config(o.files,
            Orchestrator_create_llm_client(loaded), o.agent_type))

\* change_agent(agent_type, config_path)
Orchestrator_change_agent(o, agent_type, config_path) ==
  Orchestrator_change_agent_to([o EXCEPT !.agent_type = Lower(agent_type)],
      config_path,
      IF config_path = None THEN None
      ELSE Orchestrator_load_config(o.files, config_path))

\* __init__(config_path, agent_type) from the check of the agent type on
Orchestrator_init_from(o, agent_type, loaded) ==
  IF o.agent_type \notin DOMAIN AGENT_TYPES
  THEN [o |-> o, outcome |-> Raised("ValueError")]
  ELSE IF Failed(loaded) THEN [o |-> o, outcome |-> loaded]
  ELSE Orchestrator_create_agent(o,
         Orchestrator_ensure_agent_config(o.files,
            Orchestrator_create_llm_client(loaded), o.agent_type))

\* CalculatorOrchestrator(agent_type = agent_type) where the files exist
Orchestrator_init(files, agent_type) ==
  Orchestrator_init_from(
      [agent_type |-> Lower(agent_type), files |-> files,
       config |-> None, agent |-> None],
      agent_type,
      Orchestrator_load_config(files, ConfigPath(agent_type)))

\* the agent types named by the callers: "stepwise", "reducing",
\* "Reducing", "STEPWISE" and "direct"
AgentTypeNames ==
  {StepwiseName, ReducingName,
   <<"R", "e", "d", "u", "c", "i", "n", "g">>,
   <<"S", "T", "E", "P", "W", "I", "S", "E">>,
   <<"d", "i", "r", "e", "c", "t">>}

ConfigFiles == {ConfigPath(StepwiseName), ConfigPath(ReducingName)}

\* the orchestrators that a construction returns
InitOrchestrator ==
  /\ stepwise = StepwiseIdle
  /\ reducing = ReducingIdle
  /\ call = NoCall
  /\ \E files \in SUBSET ConfigFiles, t \in AgentTypeNames :
       /\ Orchestrator_init(files, t).outcome = None
       /\ orchestrator = Orchestrator_init(files, t).o
  /\ config = orchestrator.agent.config

\* orchestrator.change_agent(agent_type, config_path), between two
\* calculations
ChangeAgent(agent_type, config_path) ==
  /\ stepwise.pc # "await_model"
  /\ reducing.pc # "await_model"
  /\ orchestrator'
       = Orchestrator_change_agent(orchestrator, agent_type, config_path).o
  /\ call' = [f |-> "change_agent", done |-> TRUE,
              agent_type |-> agent_type, config_path |-> config_path,
              outcome |-> Orchestrator_change_agent(orchestrator, agent_type,
                                                    config_path).outcome]
  /\ config' = orchestrator'.agent.config
  /\ stepwise' = StepwiseIdle
  /\ reducing' = ReducingIdle

\* orchestrator.calculate(expression): self.agent.run(expression)
OrchestratorCalculate(expression) ==
  /\ stepwise.pc # "await_model"
  /\ reducing.pc # "await_model"
  /\ IF orchestrator.agent.class = "StepwiseCalculatorAgent"
     THEN /\ stepwise' = Stepwise_run(orchestrator.agent.config, expression)
          /\ reducing' = ReducingIdle
     ELSE /\ reducing' = Reducing_run(orchestrator.agent.config, expression)
          /\ stepwise' = StepwiseIdle
  /\ UNCHANGED <<config, call, orchestrator>>

\* the one answer of the model: the final 5 + 10
OrchestratorMenu == {Call(5, 10, <<"+">>, TRUE)}

NextOrchestrator ==
  \/ \E t \in AgentTypeNames, p \in ConfigFiles \cup {None} : ChangeAgent(t, p)
  \/ OrchestratorCalculate(ExprTwoStep)
  \/ \E tc \in Responses(OrchestratorMenu, 1) : StepwiseReply(tc)
  \/ \E tc \in Responses(OrchestratorMenu, 1) : ReducingReply(tc)

SpecOrchestrator == InitOrchestrator /\ [][NextOrchestrator]_vars

\* C19: after change_agent(t) succeeds for t naming "stepwise" or
\* "reducing" in any letter case, orchestrator.agent_type is t in lower
\* case and the active agent, which serves the calculate calls that
\* follow, is an instance of the class registered for that type.
C19_ChangeAgentSelectsClass ==
  (call.f = "change_agent" /\ call.outcome = None) =>
    /\ Lower(call.agent_type) \in {StepwiseName, ReducingName}
    /\ orchestrator.agent_type = Lower(call.agent_type)
    /\ orchestrator.agent.class = AGENT_TYPES[Lower(call.agent_type)]
    /\ Lower(call.agent_type) = StepwiseName =>
         /\ orchestrator.agent.class = "StepwiseCalculatorAgent"
         /\ reducing = ReducingIdle
    /\ Lower(call.agent_type) = ReducingName =>
         /\ orchestrator.agent.class = "ReducingCalculatorAgent"
         /\ stepwise = StepwiseIdle

\* an orchestrator built for "stepwise" after change_agent("Reducing"):
\* the calculation that follows is run by the Reducing agent
C19_Witness ==
  /\ call.f = "change_agent"
  /\ call.agent_type = <<"R", "e", "d", "u", "c", "i", "n", "g">>
  /\ call.outcome = None
  /\ orchestrator.agent_type = ReducingName
  /\ orchestrator.agent.class = "ReducingCalculatorAgent"
  /\ "initial_prompt" \in DOMAIN orchestrator.config
  /\ orchestrator.config.system_prompt = "reducing: system_prompt"
  /\ reducing.pc = "returned"
  /\ reducing.final_result = PyInt(15)

\* C20: in the Reducing agent, whenever a turn's is_final_step is true the
\* run ends in that turn and returns the last recorded result of that
\* turn; the loop check and its single-operator fallback value apply only
\* to turns that are not final and never replace the result of a final
\* turn.
C20_FinalTurnReturnsItsResult ==
  (ReducingTurnDone /\ Truthy(reducing.result.is_final_step)) =>
    /\ reducing.pc = "returned"
    /\ reducing.via = "final_step"
    /\ reducing.final_result = Reducing_last_result(reducing.result.results)

\* ------------------------------------------------------------------------
\* Properties of the call budget and of termination (under Spec)
\* ------------------------------------------------------------------------
\* the calls of the model a run has made: those answered and the one out
StepwiseCallsMade ==
  stepwise.llm_calls + (IF stepwise.pc = "await_model" THEN 1 ELSE 0)

ReducingCallsMade ==
  reducing.llm_calls + (IF reducing.pc = "await_model" THEN 1 ELSE 0)

\* C21: in either agent the number of model calls made during one run
\* never exceeds the configured max_llm_calls, for every configured value
\* of max_llm_calls, 0 included.
C21_CallsWithinBudget ==
  /\ StepwiseCallsMade <= config.max_llm_calls
  /\ ReducingCallsMade <= config.max_llm_calls

\* the runs of Spec with a model that answers every call
SpecAnswered ==
  /\ Init
  /\ [][Next]_vars
  /\ WF_vars(\E tc \in Responses(Menu, MaxCallsPerTurn) : StepwiseReply(tc))
  /\ WF_vars(\E tc \in Responses(Menu, MaxCallsPerTurn) : ReducingReply(tc))

\* C22: given a model that answers every call, every run of either agent
\* eventually terminates, by returning a value or by failing with an
\* error, also when the model never signals is_final_step and the reducer
\* never shrinks the expression: loop detection with an inapplicable
\* fallback cannot make the run cycle forever.
C22_RunsTerminate ==
  /\ (stepwise.pc = "await_model") ~> (stepwise.pc \in {"returned", "raised"})
  /\ (reducing.pc = "await_model") ~> (reducing.pc \in {"returned", "raised"})

\* "5 + 5 / 0" answered twice with 5 * 2, never final: the expression is
\* not reduced, the loop is found each time, the fallback does not apply,
\* and the run ends at its budget of two calls
C22_Witness ==
  /\ config.max_llm_calls = 2
  /\ reducing.input = ExprDivZero
  /\ reducing.expression = ExprDivZero
  /\ reducing.llm_calls = 2
  /\ Cardinality(LinesOf(reducing.output, "Warning: possible loop detected")) = 2
  /\ ~Truthy(reducing.result.is_final_step)
  /\ reducing.pc = "raised"
  /\ reducing.error = "MaxCallsExceeded"

\* ------------------------------------------------------------------------
\* Reducing runs whose turns leave the expression as it is (SpecLoop)
\* ------------------------------------------------------------------------
\* "-5"
ExprNegative == <<"-", "5">>

\* "(5) + 5"
ExprParenthesized == <<"(", "5", ")", " ", "+", " ", "5">>

LoopExpressions == {ExprDivZero, ExprNegative, ExprParenthesized}

\* calculations that occur in none of the expressions
LoopMenu == {Call(5, 2, <<"*">>, FALSE), Call(5, 10, <<"+">>, TRUE)}

InitLoop ==
  /\ config \in ReducingConfigs
  /\ stepwise = StepwiseIdle
  /\ reducing = ReducingIdle
  /\ call = NoCall
  /\ orchestrator = NoOrchestrator

NextLoop ==
  \/ \E e \in LoopExpressions : ReducingRun(e)
  \/ \E tc \in Responses(LoopMenu, MaxCallsPerTurn) : ReducingReply(tc)

SpecLoop == InitLoop /\ [][NextLoop]_vars

\* the single-operator fallback is inapplicable: the expression does not
\* hold exactly one operator, or a side of the split is no number
FallbackInapplicable(e) ==
  \/ OperatorCount(e) # 1
  \/ \E o \in {"+", "-", "*", "/"} :
       /\ Contains(e, o)
       /\ \/ IsRaised(float(SplitOnce(e, o)[1]))
          \/ IsRaised(float(SplitOnce(e, o)[2]))

\* C23: in the Reducing agent, when loop detection fires but the
\* single-operator fallback is inapplicable, the diagnostic is not fatal:
\* no error is raised, no value is returned by the check, and the run
\* continues with the final-step check, the budget check and the next
\* model call.
C23_LoopDiagnosticIsNotFatal ==
  [][LET r == reducing'.result
         e == reducing'.result.remaining_expression
     IN  (/\ reducing.pc = "await_model"
          /\ reducing'.llm_calls = reducing.llm_calls + 1
          /\ r.raised = None
          /\ e \in reducing.previous_expressions
          /\ FallbackInapplicable(e)) =>
           /\ reducing'.via # "loop_fallback"
           /\ reducing'.output[Len(reducing.output) + 2] = LineWarning(e)
           /\ LinesOf(reducing'.output, "Fallback calculation") = {}
           /\ IF Truthy(r.is_final_step)
              THEN /\ reducing'.pc = "returned"
                   /\ reducing'.via = "final_step"
                   /\ reducing'.final_result
                        = r.results[Len(r.results)][1]
              ELSE IF reducing.i >= config.max_llm_calls
              THEN \/ /\ reducing'.pc = "returned"
                      /\ reducing'.via = "direct_evaluation"
                   \/ /\ reducing'.pc = "raised"
                      /\ reducing'.error = "MaxCallsExceeded"
              ELSE /\ reducing'.pc = "await_model"
                   /\ reducing'.error = ""
                   /\ reducing'.final_result = None
                   /\ reducing'.i = reducing.i + 1
                   /\ reducing'.expression = e
                   /\ reducing'.prompt_msg[2].content.EXPRESSION = e
    ]_vars

\* "-5" left as it is by the first turn, 5 * 2 twice: "" is no number, the
\* loop is reported and the model is called again
C23_Witness ==
  /\ config.max_llm_calls = 2
  /\ reducing.input = ExprNegative
  /\ reducing.expression = ExprNegative
  /\ reducing.llm_calls = 1
  /\ Len(reducing.response) = 2
  /\ reducing.output[Len(reducing.output)] = LineWarning(ExprNegative)
  /\ reducing.pc = "await_model"
  /\ reducing.i = 2

\* ------------------------------------------------------------------------
\* Properties of the values and the errors of the runs (under Spec)
\* ------------------------------------------------------------------------
\* a number divided by zero: "a / 0"
DividesByZero(e) ==
  /\ OperatorCount(e) = 1
  /\ Contains(e, "/")
  /\ ~IsRaised(float(SplitOnce(e, "/")[1]))
  /\ ~IsRaised(float(SplitOnce(e, "/")[2]))
  /\ float(SplitOnce(e, "/")[2]).n = 0

\* the first call of the response that fails is a division by zero
FirstFailureDividesByZero(response) ==
  \E k \in 1..Len(response) :
    /\ \A m \in 1..(k - 1) : ~CallFails(response[m])
    /\ parse_arguments(response[k].arguments).ok
    /\ parse_arguments(response[k].arguments).op = PyStr(<<"/">>)
    /\ parse_arguments(response[k].arguments).b = PyInt(0)

\* C24: in the single-operator fallback of the Reducing agent an
\* expression 'a / 0' raises no DivisionByZero nor any other error to the
\* caller (the run returns without a value); this is the only place where
\* an arithmetic error is swallowed: a tool call (a, 0, '/') of the model
\* is surfaced as DivisionByZero, and a division by zero met by the
\* evaluation at the end of the budget fails the run.
C24_OnlyFallbackSwallowsDivision ==
  [][LET r == reducing'.result
         e == reducing'.result.remaining_expression
         answered == /\ reducing.pc = "await_model"
                     /\ reducing'.llm_calls = reducing.llm_calls + 1
     IN  /\ (/\ answered
             /\ r.raised = None
             /\ e \in reducing.previous_expressions
             /\ DividesByZero(e)) =>
               /\ reducing'.pc = "returned"
               /\ reducing'.via = "loop_fallback"
               /\ reducing'.error = ""
               /\ reducing'.final_result = None
         /\ (answered /\ FirstFailureDividesByZero(reducing'.response)) =>
               /\ reducing'.pc = "raised"
               /\ reducing'.error = "DivisionByZero"
         /\ (/\ stepwise.pc = "await_model"
             /\ stepwise'.llm_calls = stepwise.llm_calls + 1
             /\ FirstFailureDividesByZero(stepwise'.response)) =>
               /\ stepwise'.pc = "raised"
               /\ stepwise'.error = "DivisionByZero"
         /\ (/\ answered
             /\ r.raised = None
             /\ eval(e) = Raised("ZeroDivisionError")
             /\ reducing'.via # "loop_fallback") =>
               \/ reducing'.via = "final_step"
               \/ reducing'.pc = "await_model"
               \/ /\ reducing'.pc = "raised"
                  /\ reducing'.error = "MaxCallsExceeded"
         /\ (answered /\ reducing'.pc = "returned"
               /\ reducing'.final_result = None) =>
               /\ reducing'.via = "loop_fallback"
               /\ DividesByZero(e)
         /\ stepwise'.pc = "returned" => stepwise'.final_result # None
    ]_vars

\* "5 + 5 / 0" reduced to "10 / 0" by the first turn and left so by the
\* second: the fallback divides by zero and the run returns without a
\* value and without an error
C24_Witness ==
  /\ reducing.input = ExprDivZero
  /\ reducing.expression = <<"1", "0", " ", "/", " ", "0">>
  /\ reducing.llm_calls = 2
  /\ reducing.pc = "returned"
  /\ reducing.via = "loop_fallback"
  /\ reducing.error = ""
  /\ reducing.final_result = None
  /\ reducing.output[Len(reducing.output) - 2] = LineFallback(None)

\* C25: every run of either agent that returns normally returns a numeric
\* value: no return path (final step, loop-detection fallback,
\* budget-exhaustion fallback) yields an absent (None) result.
C25_ReturnedValueIsNumeric ==
  /\ stepwise.pc = "returned" => IsNumber(stepwise.final_result)
  /\ reducing.pc = "returned" => IsNumber(reducing.final_result)

\* ------------------------------------------------------------------------
\* Reducing runs whose turns hold several reductions (SpecFold)
\* ------------------------------------------------------------------------
\* calculations of "10 + 5 * 3 - 8 / 2" and of "1000 * 1000 + 1", none of
\* them final
FoldMenu ==
  {Call(5, 3, <<"*">>, FALSE), Call(10, 15, <<"+">>, FALSE),
   Call(1000, 1000, <<"*">>, FALSE)}

\* "1000 * 1000 + 1"
ExprLarge ==
  <<"1", "0", "0", "0", " ", "*", " ", "1", "0", "0", "0", " ", "+", " ", "1">>

FoldExpressions == {ExprRoundTrip, ExprLarge}

NextFold ==
  \/ \E e \in FoldExpressions : ReducingRun(e)
  \/ \E tc \in Responses(FoldMenu, MaxCallsPerTurn) : ReducingReply(tc)

SpecFold == InitLoop /\ [][NextFold]_vars

\* the expression after the calls k.. of the response, each reduced
\* against the expression left by the call before it
RECURSIVE FoldedFrom(_, _, _)
FoldedFrom(expression, response, k) ==
  IF k > Len(response) THEN expression
  ELSE LET args == parse_arguments(response[k].arguments)
       IN  FoldedFrom(reduce_expression(expression, args.a, args.b, args.op.s,
                                        calculate(args.a, args.b, args.op)),
                      response, k + 1)

\* C26: in a Reducing turn with several tool calls the calls are folded in
\* order: call k is reduced against the expression left by call k-1 of the
\* same turn, and the expression carried to the next turn and shown in the
\* next prompt is the result of folding all calls of the turn.
C26_CallsFoldedInOrder ==
  [][LET r == reducing'.result
     IN  (/\ reducing.pc = "await_model"
          /\ reducing'.llm_calls = reducing.llm_calls + 1
          /\ r.raised = None) =>
           /\ r.remaining_expression
                = FoldedFrom(reducing.expression, reducing'.response, 1)
           /\ reducing'.expression = r.remaining_expression
           /\ reducing'.pc = "await_model" =>
                /\ reducing'.prompt_msg[2].role = "user"
                /\ reducing'.prompt_msg[2].content.EXPRESSION
                     = FoldedFrom(reducing.expression, reducing'.response, 1)
    ]_vars

\* the first turn holds 5 * 3 and then 10 + 15, which occurs only in the
\* expression the first call leaves: "25 - 8 / 2" goes to the next turn
C26_Witness ==
  /\ reducing.input = ExprRoundTrip
  /\ reducing.llm_calls = 1
  /\ reducing.response = ToolCalls(<<Call(5, 3, <<"*">>, FALSE),
                                     Call(10, 15, <<"+">>, FALSE)>>)
  /\ reducing.expression
       = <<"2", "5", " ", "-", " ", "8", " ", "/", " ", "2">>
  /\ reducing.pc = "await_model"
  /\ reducing.prompt_msg[2].content.EXPRESSION = reducing.expression

\* ------------------------------------------------------------------------
\* Properties of the prompts of the Stepwise agent (under Spec)
\* ------------------------------------------------------------------------
\* the StepRecords of the calls of a response, in call order
StepRecordsOf(response) ==
  [k \in 1..Len(response) |->
     LET args == parse_arguments(response[k].arguments)
     IN  StepRecord(args.a, args.op, args.b,
                    calculate(args.a, args.b, args.op))]

\* the Stepwise run has processed a turn that is not final
StepwiseTurnNotFinal ==
  /\ stepwise.pc = "await_model"
  /\ stepwise'.llm_calls = stepwise.llm_calls + 1
  /\ stepwise'.result.raised = None
  /\ ~Truthy(stepwise'.result.is_final_step)

\* C27: in the Stepwise agent every user prompt after the first is built
\* from the original expression, never a rewritten one, and from the step
\* log, which holds the StepRecords of all previous non-final turns in the
\* order they were processed; the log is only appended to during the run.
C27_PromptFromExpressionAndLog ==
  [][/\ (stepwise.pc = "idle" /\ stepwise'.pc = "await_model") =>
          /\ stepwise'.steps = <<>>
          /\ stepwise'.prompt_msg[Len(stepwise'.prompt_msg)]
               = UserMessage(Prompt("initial_prompt", stepwise'.expression,
                                    <<>>))
     /\ stepwise.pc = "await_model" =>
          /\ stepwise'.expression = stepwise.expression
          /\ Len(stepwise'.steps) >= Len(stepwise.steps)
          /\ SubSeq(stepwise'.steps, 1, Len(stepwise.steps)) = stepwise.steps
     /\ StepwiseTurnNotFinal =>
          /\ stepwise'.steps
               = stepwise.steps \o StepRecordsOf(stepwise'.response)
          /\ stepwise'.prompt_msg[Len(stepwise'.prompt_msg)]
               = UserMessage(Prompt("subsequent_prompt", stepwise.expression,
                                    Join(<<"\n">>, stepwise'.steps)))
    ]_vars

\* the first turn of "5 + 5 * 2" holds 5 * 2 and 5 + 5: the second prompt
\* shows the expression as it was given and the two steps, one per line
C27_Witness ==
  /\ stepwise.expression = ExprTwoStep
  /\ stepwise.llm_calls = 1
  /\ stepwise.pc = "await_model"
  /\ Len(stepwise.steps) = 2
  /\ stepwise.prompt_msg[Len(stepwise.prompt_msg)].content.EXPRESSION
       = ExprTwoStep
  /\ stepwise.prompt_msg[Len(stepwise.prompt_msg)].content.STEPS_SO_FAR
       = <<"5", " ", "*", " ", "2", " ", "=", " ", "1", "0", "\n",
           "5", " ", "+", " ", "5", " ", "=", " ", "1", "0">>

\* the prompt the Stepwise run has built last
StepwiseLatestPrompt ==
  IF stepwise.llm_calls = 0
  THEN Prompt("initial_prompt", stepwise.expression, <<>>)
  ELSE Prompt("subsequent_prompt", stepwise.expression,
              Join(<<"\n">>, stepwise.steps))

\* C28: with append_messages false every model call of a Stepwise run
\* receives a history of exactly two messages, the system prompt followed
\* by one user message that holds only the latest prompt, whatever
\* return_tool_call_msgs is and however many turns have passed.
C28_FreshHistoryEachTurn ==
  (/\ IsStepwiseConfig(config)
   /\ ~config.append_messages
   /\ stepwise.pc = "await_model") =>
     /\ Len(stepwise.prompt_msg) = 2
     /\ stepwise.prompt_msg[1] = [role |-> "system", content |-> "system_prompt"]
     /\ stepwise.prompt_msg[2]
          = [role |-> "user", content |-> StepwiseLatestPrompt]

\* the second call of a run with append_messages false and
\* return_tool_call_msgs true, after a turn of two tool calls
C28_Witness ==
  /\ IsStepwiseConfig(config)
  /\ ~config.append_messages
  /\ config.return_tool_call_msgs
  /\ stepwise.pc = "await_model"
  /\ stepwise.llm_calls = 1
  /\ Len(stepwise.response) = 2
  /\ Len(stepwise.prompt_msg) = 2
  /\ stepwise.prompt_msg[2].content.template = "subsequent_prompt"

\* C29: with append_messages true the history sent to the model at turn
\* k+1 has the history of turn k as a prefix, nothing removed or
\* reordered; when return_tool_call_msgs is also true the part appended
\* for turn k is the tool-call message of the model, then one tool-result
\* message per call in call order, then the next user prompt; when it is
\* false only the next user prompt is appended.
C29_HistoryGrowsByTurn ==
  [][LET old == stepwise.prompt_msg
         new == stepwise'.prompt_msg
         n == Len(stepwise'.response)
         tool_part == IF config.return_tool_call_msgs THEN n + 1 ELSE 0
     IN  (/\ IsStepwiseConfig(config)
          /\ config.append_messages
          /\ StepwiseTurnNotFinal
          /\ stepwise'.pc = "await_model") =>
           /\ Len(new) = Len(old) + tool_part + 1
           /\ SubSeq(new, 1, Len(old)) = old
           /\ config.return_tool_call_msgs =>
                /\ new[Len(old) + 1]
                     = [role |-> "assistant",
                        tool_calls |-> stepwise'.response]
                /\ \A k \in 1..n :
                     LET args == parse_arguments(stepwise'.response[k].arguments)
                     IN  new[Len(old) + 1 + k]
                           = [role |-> "tool",
                              content |-> calculate(args.a, args.b, args.op),
                              tool_call_id |-> stepwise'.response[k].id]
           /\ new[Len(new)].role = "user"
           /\ new[Len(new)].content.template = "subsequent_prompt"
           /\ new[Len(new)].content.STEPS_SO_FAR
                = Join(<<"\n">>, stepwise'.steps)
    ]_vars

\* the second call of a run with both settings true, after a turn that
\* held 5 * 2 and 5 + 5: system, user, the two tool calls of the model,
\* the results 10 and 10, user
C29_Witness ==
  /\ IsStepwiseConfig(config)
  /\ config.append_messages
  /\ config.return_tool_call_msgs
  /\ stepwise.pc = "await_model"
  /\ stepwise.llm_calls = 1
  /\ stepwise.response = ToolCalls(<<Call(5, 2, <<"*">>, FALSE),
                                     Call(5, 5, <<"+">>, FALSE)>>)
  /\ [k \in 1..Len(stepwise.prompt_msg) |-> stepwise.prompt_msg[k].role]
       = <<"system", "user", "assistant", "tool", "tool", "user">>
  /\ stepwise.prompt_msg[4].tool_call_id = 1
  /\ stepwise.prompt_msg[5].tool_call_id = 2

\* C30: throughout a Reducing run that started from a validated
\* expression the running expression stays inside the validated grammar:
\* every expression placed in a prompt and the string handed to the
\* direct-evaluation fallback hold only digits, whitespace, + - * / ( )
\* and '.'.
C30_ExpressionStaysInGrammar ==
  (/\ reducing.pc \in {"await_model", "returned", "raised"}
   /\ Len(reducing.input) <= config.max_expression_length
   /\ reducing.input # <<>>
   /\ InGrammar(reducing.input)) =>
     /\ InGrammar(reducing.expression)
     /\ reducing.pc = "await_model" =>
          InGrammar(reducing.prompt_msg[2].content.EXPRESSION)

\* ------------------------------------------------------------------------
\* reduce_expression applied on its own, once and then a second time to
\* its own output

\* the expressions: "15 + 5", where the operand 5 occurs inside the longer
\* digit run 15; "3 + 4 * (3 + 4)", a bare 3 + 4 before the parenthesised
\* one; "(3 + 4) * (3 + 4)", the same group twice; "(-3 + 4) * 2", a group
\* whose first operand is negative; "5 * 3 * 2 + 1.5 * 2", where 5 * 3
\* reduces to the token 15, before 1.5 * 2; and "3 + 4"
ReduceExpressions ==
  {<<"1", "5", " ", "+", " ", "5">>,
   <<"3", " ", "+", " ", "4", " ", "*", " ",
     "(", "3", " ", "+", " ", "4", ")">>,
   <<"(", "3", " ", "+", " ", "4", ")", " ", "*", " ",
     "(", "3", " ", "+", " ", "4", ")">>,
   <<"(", "-", "3", " ", "+", " ", "4", ")", " ", "*", " ", "2">>,
   <<"5", " ", "*", " ", "3", " ", "*", " ", "2", " ", "+", " ",
     "1", ".", "5", " ", "*", " ", "2">>,
   <<"3", " ", "+", " ", "4">>}

\* the operands of the calls: a is 3, 5, -3 or 1.5 and b is 2, 3, 4 or 5
ReduceFirstOperands == {PyInt(3), PyInt(5), PyInt(-3), PyFloat(3, 2)}
ReduceSecondOperands == {PyInt(2), PyInt(3), PyInt(4), PyInt(5)}
ReduceOps == {<<"+">>, <<"*">>}

\* the call reduce_expression(expression, a, b, op, calculate(a, b, op)),
\* made after the call previous
ReduceCall(expression, a, b, op, previous) ==
  [f |-> "reduce_expression", done |-> TRUE, expression |-> expression,
   a |-> a, b |-> b, op |-> op, result |-> calculate(a, b, PyStr(op)),
   outcome |-> reduce_expression(expression, a, b, op,
                                 calculate(a, b, PyStr(op))),
   previous |-> previous]

\* reduce_expression(expression, a, b, op, result)
Reduce(expression, a, b, op) ==
  /\ call = NoCall
  /\ call' = ReduceCall(expression, a, b, op, NoCall)
  /\ UNCHANGED <<config, stepwise, reducing, orchestrator>>

\* reduce_expression(reduce_expression(e, ...), a, b, op, result)
ReduceAgain(a, b, op) ==
  /\ call.f = "reduce_expression"
  /\ call.previous = NoCall
  /\ call' = ReduceCall(call.outcome, a, b, op, call)
  /\ UNCHANGED <<config, stepwise, reducing, orchestrator>>

NextReduce ==
  \/ \E e \in ReduceExpressions, a \in ReduceFirstOperands,
        b \in ReduceSecondOperands, op \in ReduceOps : Reduce(e, a, b, op)
  \/ \E a \in ReduceFirstOperands, b \in ReduceSecondOperands,
        op \in ReduceOps : ReduceAgain(a, b, op)

SpecReduce == InitCalculate /\ [][NextReduce]_vars

\* the places <<i, j>> of expression whose text expression[i..j] the
\* outcome has replaced with the text r
Substitutions(expression, outcome, r) ==
  {p \in (1..(Len(expression) + 1)) \X (0..Len(expression)) :
     /\ p[1] <= p[2] + 1
     /\ outcome = SubSeq(expression, 1, p[1] - 1) \o r
                    \o SubSeq(expression, p[2] + 1, Len(expression))}

\* no digit of expression stands right before place i or right after
\* place j
WholeTokens(expression, i, j) ==
  /\ i = 1 \/ ~IsDigit(expression[i - 1])
  /\ j = Len(expression) \/ ~IsDigit(expression[j + 1])

\* C31: whenever reduce_expression changes the expression, the text it
\* replaced with the result begins and ends at the edge of a digit run:
\* no operand is matched inside a longer digit run, whichever of the
\* patterns performed the substitution
C31_OperandsAreWholeTokens ==
  (/\ call.f = "reduce_expression"
   /\ call.outcome # call.expression)
    => \E p \in Substitutions(call.expression, call.outcome,
                              float_to_str(call.result)) :
         WholeTokens(call.expression, p[1], p[2])

\* k blanks
Blanks(k) == [n \in 1..k |-> " "]

\* the texts "( a op b )", with no or one blank around each token
GroupTexts(a, b, op) ==
  {<<"(">> \o Blanks(k[1]) \o float_to_str(a) \o Blanks(k[2]) \o op
     \o Blanks(k[3]) \o float_to_str(b) \o Blanks(k[4]) \o <<")">> :
     k \in [1..4 -> 0..1]}

\* the places <<i, j>> of expression that hold a group "( a op b )"
Groups(expression, a, b, op) ==
  {p \in (1..Len(expression)) \X (1..Len(expression)) :
     /\ p[1] <= p[2]
     /\ SubSeq(expression, p[1], p[2]) \in GroupTexts(a, b, op)}

\* C32: when the expression holds a parenthesised group "( a op b )",
\* the outcome of reduce_expression is the expression with one such
\* group, parentheses included, replaced by the bare result and every
\* character outside the group unchanged, even when a bare "a op b"
\* stands earlier in the expression
C32_GroupReplacedWhole ==
  (/\ call.f = "reduce_expression"
   /\ Groups(call.expression, call.a, call.b, call.op) # {})
    => \E p \in Groups(call.expression, call.a, call.b, call.op) :
         call.outcome
           = SubSeq(call.expression, 1, p[1] - 1)
               \o float_to_str(call.result)
               \o SubSeq(call.expression, p[2] + 1, Len(call.expression))

\* the texts "a op b", with no or one blank around the operator, and the
\* same in parentheses
OwnTexts(a, b, op) ==
  {float_to_str(a) \o Blanks(k[1]) \o op \o Blanks(k[2]) \o float_to_str(b) :
     k \in [1..2 -> 0..1]}
    \cup GroupTexts(a, b, op)

\* the texts s becomes when one occurrence of "a op b" in it is replaced
\* by the text r
OwnReplaced(s, a, b, op, r) ==
  {SubSeq(s, 1, p[1] - 1) \o r \o SubSeq(s, p[2] + 1, Len(s)) :
     p \in {q \in (1..Len(s)) \X (1..Len(s)) :
              /\ q[1] <= q[2]
              /\ SubSeq(s, q[1], q[2]) \in OwnTexts(a, b, op)}}

\* C33: when a first reduction wrote the token r at some place of the
\* expression and the sub-expression of a second call stands before or
\* after that place, the second reduction replaces one such occurrence
\* and leaves r and the rest in place
C33_SecondReductionKeepsResult ==
  (/\ call.f = "reduce_expression"
   /\ call.previous # NoCall
   /\ call.previous.outcome # call.previous.expression)
    => \A p \in Substitutions(call.previous.expression, call.previous.outcome,
                              float_to_str(call.previous.result)) :
         LET e == call.previous.expression
             before == SubSeq(e, 1, p[1] - 1)
             r == float_to_str(call.previous.result)
             after == SubSeq(e, p[2] + 1, Len(e))
             befores == OwnReplaced(before, call.a, call.b, call.op,
                                    float_to_str(call.result))
             afters == OwnReplaced(after, call.a, call.b, call.op,
                                   float_to_str(call.result))
         IN  befores \cup afters # {}
               => \/ \E s \in befores : call.outcome = s \o r \o after
                  \/ \E s \in afters : call.outcome = before \o r \o s

\* ------------------------------------------------------------------------
\* A reduction that finds nothing, in a Reducing run (under Spec)
\* ------------------------------------------------------------------------
\* none of the three patterns of reduce_expression finds a match for
\* "a op b" in expression
NoOccurrence(expression, a, b, op) ==
  LET number_a == create_number_pattern(a)
      number_b == create_number_pattern(b)
      parentheses_pattern == <<BS, "(">> \o WS \o number_a \o WS
                               \o ReEscape(op) \o WS \o number_b \o WS
                               \o <<BS, ")">>
      pattern == number_a \o WS \o ReEscape(op) \o WS \o number_b
      op_pattern == float_to_str(a) \o WS \o <<BS>> \o op \o WS
                      \o float_to_str(b)
  IN  /\ ReSearch(parentheses_pattern, expression)[1] = 0
      /\ ReSearch(pattern, expression)[1] = 0
      /\ ReSearch(op_pattern, expression)[1] = 0

\* C34: when the calls of a Reducing turn are calculated and none of the
\* patterns finds "a op b" of any of them, reduce_expression returns the
\* expression unchanged and raises nothing: the expression left by the
\* turn is the one the turn began with, which is in the seen-set, and the
\* loop check that follows reports it.
C34_NoOccurrenceLeavesExpression ==
  [][LET r == reducing'.result
     IN  (/\ reducing.pc = "await_model"
          /\ reducing'.llm_calls = reducing.llm_calls + 1
          /\ r.raised = None
          /\ \A k \in 1..Len(reducing'.response) :
               LET args == parse_arguments(reducing'.response[k].arguments)
               IN  NoOccurrence(reducing.expression, args.a, args.b,
                                args.op.s)) =>
           /\ r.remaining_expression = reducing.expression
           /\ reducing'.expression = reducing.expression
           /\ reducing.expression \in reducing.previous_expressions
           /\ reducing'.error = "" \/ reducing'.error = "MaxCallsExceeded"
           /\ reducing'.output[Len(reducing.output) + 2]
                = LineWarning(reducing.expression)
    ]_vars

\* "5 + 5 / 0" and a turn that calculates 5 * 2: the expression is left as
\* it is, the loop is reported and the model is called again
C34_Witness ==
  /\ reducing.input = ExprDivZero
  /\ reducing.llm_calls = 1
  /\ reducing.response = ToolCalls(<<Call(5, 2, <<"*">>, FALSE)>>)
  /\ reducing.result.raised = None
  /\ reducing.expression = ExprDivZero
  /\ reducing.output[Len(reducing.output)] = LineWarning(ExprDivZero)
  /\ reducing.pc = "await_model"

\* ------------------------------------------------------------------------
\* change_agent calls that fail (under SpecOrchestrator)
\* ------------------------------------------------------------------------
\* agent_type names the class of the active agent of the orchestrator o
NamesActiveAgent(o) ==
  /\ o.agent_type \in DOMAIN AGENT_TYPES
  /\ o.agent.class = AGENT_TYPES[o.agent_type]

\* C36: after every change_agent call, successful or failing,
\* orchestrator.agent_type names the class of the active agent, and a
\* change_agent call with an unsupported type fails with an error and
\* leaves agent_type and the active agent as they were.
C36_FailedChangeLeavesOrchestrator ==
  [][(call'.f = "change_agent" /\ orchestrator' # NoOrchestrator) =>
       /\ NamesActiveAgent(orchestrator')
       /\ Lower(call'.agent_type) \notin DOMAIN AGENT_TYPES =>
            /\ Failed(call'.outcome)
            /\ orchestrator'.agent_type = orchestrator.agent_type
            /\ orchestrator'.agent = orchestrator.agent
    ]_vars

\* ------------------------------------------------------------------------
\* Two calls of run on one agent instance, interleaved at the calls of the
\* model (SpecInterleaved)
\* ------------------------------------------------------------------------
\* the agents: every history policy of the Stepwise agent, and the
\* Reducing agent, each with the whole budget
InterleavedConfigs ==
  {c \in StepwiseConfigs \cup ReducingConfigs :
     c.max_llm_calls = MaxLlmCalls}

InterleavedExpressions == {ExprTwoStep, ExprLoop}

\* 5 * 2, not final, and the final 5 + 10
InterleavedMenu == {Call(5, 2, <<"*">>, FALSE), Call(5, 10, <<"+">>, TRUE)}

\* the locals of a call of run that has not begun
IdleOf(agent_config) ==
  IF IsStepwiseConfig(agent_config) THEN StepwiseIdle ELSE ReducingIdle

\* agent.run(expression) up to its first call of the model
RunOf(agent_config, expression) ==
  IF IsStepwiseConfig(agent_config) THEN Stepwise_run(agent_config, expression)
  ELSE Reducing_run(agent_config, expression)

\* agent.run from the answer of the model to its next call of the model
RunLoopOf(agent_config, st, tool_calls) ==
  IF IsStepwiseConfig(agent_config)
  THEN Stepwise_run_loop(agent_config, st, tool_calls)
  ELSE Reducing_run_loop(agent_config, st, tool_calls)

\* one agent instance and two calls of run that have not begun: the
\* expression, the answers of the model and the locals of each call
InitInterleaved ==
  /\ config \in InterleavedConfigs
  /\ stepwise = StepwiseIdle
  /\ reducing = ReducingIdle
  /\ call = [f |-> "run", done |-> FALSE,
             expressions |-> <<None, None>>,
             answers |-> <<<<>>, <<>>>>,
             runs |-> <<IdleOf(config), IdleOf(config)>>,
             interleaved |-> FALSE]
  /\ orchestrator = NoOrchestrator

\* call k of agent.run(expression) begins, the other call, 3 - k, being
\* suspended in the model or not
ConcurrentRun(k, expression) ==
  /\ call.f = "run"
  /\ call.runs[k].pc = "idle"
  /\ call' = [call EXCEPT
                !.expressions[k] = expression,
                !.runs[k] = RunOf(config, expression),
                !.interleaved
                   = @ \/ call.runs[3 - k].pc = "await_model"]
  /\ UNCHANGED <<config, stepwise, reducing, orchestrator>>

\* a run whose step log is a field of the instance: the step of call k
\* continues the log the other call has written
ConcurrentReply_shared_log(k, tool_calls) ==
  /\ call.f = "run"
  /\ call.runs[k].pc = "await_model"
  /\ call' = [call EXCEPT
                !.answers[k] = Append(@, tool_calls),
                !.runs[k] = RunLoopOf(config,
                              [call.runs[k] EXCEPT
                                 !.steps = call.runs[3 - k].steps],
                              tool_calls),
                !.interleaved
                   = @ \/ call.runs[3 - k].pc = "await_model"]
  /\ UNCHANGED <<config, stepwise, reducing, orchestrator>>

\* the model answers call k, which runs to its next call of the model or
\* to its end; it reads the fields of the instance and its own locals
ConcurrentReply(k, tool_calls) ==
  /\ call.f = "run"
  /\ call.runs[k].pc = "await_model"
  /\ call' = [call EXCEPT
                !.answers[k] = Append(@, tool_calls),
                !.runs[k] = RunLoopOf(config, call.runs[k], tool_calls),
                !.interleaved
                   = @ \/ call.runs[3 - k].pc = "await_model"]
  /\ UNCHANGED <<config, stepwise, reducing, orchestrator>>

NextInterleaved ==
  \/ \E k \in 1..2, e \in InterleavedExpressions : ConcurrentRun(k, e)
  \/ \E k \in 1..2, tc \in Responses(InterleavedMenu, 1) :
       ConcurrentReply(k, tc)

SpecInterleaved == InitInterleaved /\ [][NextInterleaved]_vars

\* the locals of a call of run executed on its own with the answers k..
RECURSIVE RunAlone(_, _, _, _)
RunAlone(agent_config, st, answers, k) ==
  IF k > Len(answers) THEN st
  ELSE RunAlone(agent_config, RunLoopOf(agent_config, st, answers[k]),
                answers, k + 1)

\* the locals of agent.run(expression) executed on its own, the model
\* giving the answers
Sequential(agent_config, expression, answers) ==
  IF expression = None THEN IdleOf(agent_config)
  ELSE RunAlone(agent_config, RunOf(agent_config, expression), answers, 1)

====
